---- MODULE Spec2Model ----
(***************************************************************************)
(* A model of the Kramer Control brain client: the BrainClient connection  *)
(* state machine (src/src/BrainInfo.js) and the BrainDevice state/command  *)
(* layer (src/src/BrainDevice.js), together with the controller ("brain")  *)
(* they talk to over one REST request and one message channel.             *)
(*                                                                         *)
(* Every handler of the source is one action.  A handler is written as a   *)
(* composition of operators over a "world" record w that bundles the       *)
(* variables; the action commits the resulting world.  The events emitted, *)
(* the messages sent and the assignments to _connectionStatus made by the  *)
(* most recent handler are kept in the variable out.                       *)
(***************************************************************************)
EXTENDS Integers, Sequences, FiniteSets, TLC

VARIABLES
    client,      \* the BrainClient object's fields
    devices,     \* BrainClient.devices: device id -> BrainDevice fields
    ws,          \* readyState of BrainClient.ws ("none" before the first socket)
    inbox,       \* frames in flight from the controller on the current socket
    brain,       \* the controller: its configuration and what it still has to report
    app,         \* the application's pending connectToBrain calls
    calls,       \* the application's pending calls on devices
    http,        \* REST requests in flight
    out,         \* what the most recent handler emitted, sent and assigned
    lastStatus,  \* the status of the latest CONNECTION_STATUS_CHANGED event
    statusSeen,  \* statuses a CONNECTION_STATUS_CHANGED listener has seen since
                 \* connectToBrain, kept while quiet
    quiet,       \* connectToBrain was called without a socket, and nothing but
                 \* its handshake and the submission of PINs has happened since
    registry,    \* BrainClient._cachedBrainClients and the clients of the process
    request      \* the latest HttpClient.call: its options, attempts and outcome

vars ==
    <<client, devices, ws, inbox, brain, app, calls, http, out, lastStatus,
      statusSeen, quiet, registry, request>>

-----------------------------------------------------------------------------
(* Bounds of the model *)

\* frames the controller may have in flight towards the client
MaxInbox == 2
\* CONNECTION_STATUS_CHANGED events the listener keeps (the first MaxTrace)
MaxTrace == 4

-----------------------------------------------------------------------------
(* ConnectionStates *)

CONNECTION_CONNECTING    == "Connecting ..."
CONNECTION_FAILURE       == "Connection Failure"
CONNECTION_DISCONNECTED  == "Brain disconnected"
CONNECTION_RECONNECTING  == "Reconnecting to brain ..."
CONNECTION_AUTHORIZING   == "Authorizing ..."
CONNECTION_UNAUTHORIZED  == "Unauthorized Connection"
CONNECTION_ACTIVE        == "Connection Active"
CONNECTION_SYNCHRONIZING == "Synchronizing ..."

\* _connectionStatus before the first _setConnectionStatus (undefined)
NoStatus == "undefined"

\* PIN strings: the empty default and one configured PIN
Pins == {"", "1234"}

\* sys_state.state values the controller reports
ActiveStates == {"active_online", "active_offline"}
SyncStates == {"brain_sync", "space_sync", "parse_space", "upgrading",
               "resources_sync", "activating", "initializing"}
FailureStates == {"inactive", "error"}
\* the values the modelled controller sends: one of each class
SentSysStates == {"active_online", "brain_sync", "error"}

ConnCallers == {"k1"}

-----------------------------------------------------------------------------
(* Frames, events and outbound messages, as records of one shape each *)

Frame(type) ==
    [type |-> type, flag |-> FALSE, state |-> "", device |-> "", changes |-> <<>>]

Event(name) ==
    [event |-> name, status |-> "", on |-> "", id |-> "", value |-> <<>>, norm |-> <<>>]

Outbound(type) ==
    [type |-> type, token |-> "", device |-> "", watch |-> FALSE, action |-> "",
     target |-> "", params |-> <<>>]

NoOut ==
    [emitted |-> <<>>, sent |-> <<>>, writes |-> <<>>, handled |-> Frame(""),
     finished |-> <<>>, asked |-> <<>>, answer |-> "", cleared |-> FALSE,
     made |-> FALSE]

-----------------------------------------------------------------------------
(* defer(): a promise is "undefined" before it is created, "pending", or    *)
(* settled with a value; resolving a settled promise changes nothing.       *)

Settled(p) == p \notin {"undefined", "pending"}

\* the promise a connectToBrain caller at pc waits for
AwaitedAt(pc) ==
    CASE pc = "awaitConnection" -> "connectionPromise"
      [] pc = "awaitProvisioned" -> "isProvisionedPromise"
      [] pc = "awaitExpress" -> "expressModePromise"
      [] pc = "awaitLogin" -> "loginNeededPromise"
      [] pc = "awaitAuth" -> "authPromise"
      [] OTHER -> "none"

\* promise.resolve(v): settles a pending promise and wakes the callers awaiting it
ResolvePromise(w, name, v) ==
    IF w.c[name] # "pending" THEN w
    ELSE [w EXCEPT !.c[name] = v,
                   !.app = [k \in DOMAIN w.app |->
                              IF AwaitedAt(w.app[k].pc) = name /\ w.app[k].woke = ""
                              THEN [w.app[k] EXCEPT !.woke = v]
                              ELSE w.app[k]]]

\* this._xPromise = defer(): the old promise, if pending, can never settle, and
\* the callers awaiting it stay blocked for good
RecreatePromise(w, name) ==
    [w EXCEPT !.c[name] = "pending",
              !.app = [k \in DOMAIN w.app |->
                         IF AwaitedAt(w.app[k].pc) = name /\ w.app[k].woke = ""
                         THEN [w.app[k] EXCEPT !.pc = "orphaned"]
                         ELSE w.app[k]]]

-----------------------------------------------------------------------------
(* The world a handler runs in *)

\* no client has been made or cached; window.location has no brainIp parameter
NoRegistry ==
    [cache |-> [k \in {} |-> 0], clients |-> <<>>, query |-> <<>>,
     got |-> [ipAddress |-> <<>>, bc |-> 0], returned |-> [k \in {} |-> 0]]

\* HttpClient.call has not been called
NoRequest ==
    [pc |-> "idle", autoRetry |-> [on |-> FALSE, retries |-> 0], retryCount |-> 0,
     answers |-> <<>>, last |-> [status |-> 0, json |-> FALSE],
     outcome |-> [error |-> "", json |-> 0]]

World ==
    [c |-> client, d |-> devices, ws |-> ws, inbox |-> inbox, brain |-> brain,
     app |-> app, calls |-> calls, http |-> http, out |-> NoOut,
     last |-> lastStatus, seen |-> statusSeen, quiet |-> quiet,
     registry |-> registry, request |-> request]

Commit(w) ==
    /\ client' = w.c
    /\ devices' = w.d
    /\ ws' = w.ws
    /\ inbox' = w.inbox
    /\ brain' = w.brain
    /\ app' = w.app
    /\ calls' = w.calls
    /\ http' = w.http
    /\ out' = w.out
    /\ lastStatus' = w.last
    /\ statusSeen' = IF w.quiet THEN w.seen ELSE <<>>
    /\ quiet' = w.quiet
    /\ registry' = w.registry
    /\ request' = w.request

\* the controller never has more than MaxInbox frames in flight
Fits(w) == Len(w.inbox) <= MaxInbox

\* device ids in the order of BrainClient.devices (Object.values order)
DeviceOrder == <<"D1", "D2">>

-----------------------------------------------------------------------------
(* The controller's side of the message channel *)

\* what the controller does with a message the client put on the wire
BrainReceives(w, msg) ==
    CASE msg.type = "get_brain_stat_message" ->
           [w EXCEPT !.inbox = Append(@, [Frame("brain_status_message")
                                            EXCEPT !.flag = w.brain.provisioned])]
      [] msg.type = "get_express_mode_flag_msg" ->
           [w EXCEPT !.inbox = Append(@, [Frame("express_mode_flag_msg")
                                            EXCEPT !.flag = w.brain.express])]
      [] msg.type = "passcode_auth_msg" ->
           \* the answer is marked when it answers the automatic attempt
           [w EXCEPT !.inbox = Append(@, [Frame(IF msg.token = w.brain.pin
                                                THEN "authorized_message"
                                                ELSE "unauthorized_message")
                                            EXCEPT !.state = msg.action])]
      [] msg.type = "watch_states_message" ->
           [w EXCEPT !.brain.watching = IF msg.watch THEN @ \cup {msg.device}
                                        ELSE @ \ {msg.device}]
      [] msg.type = "send_macro_message" ->
           \* a custom state is set to the value asked for, and reported later
           IF msg.action = "state_change"
           THEN [w EXCEPT !.brain.pending = @ \cup
                    {[device |-> msg.device, id |-> msg.target,
                      value |-> msg.params[1].value]}]
           ELSE w
      [] OTHER -> w

-----------------------------------------------------------------------------
(* BrainClient: emit, sendData, _setConnectionStatus *)

\* emit(event, data): listeners run synchronously; the status listener keeps
\* the first MaxTrace statuses it is handed
Emit(w, ev) ==
    [w EXCEPT !.out.emitted = Append(@, ev),
              !.last = IF ev.event = "CONNECTION_STATUS_CHANGED" THEN ev.status ELSE @,
              !.seen = IF ev.event = "CONNECTION_STATUS_CHANGED" /\ Len(@) < MaxTrace
                       THEN Append(@, ev.status) ELSE @]

\* sendData(data): on the wire only with a socket and isConnected
SendData(w, msg) ==
    IF w.ws # "none" /\ w.c.isConnected
    THEN BrainReceives([w EXCEPT !.out.sent = Append(@, msg)], msg)
    ELSE w

\* ConnectionWatchdog.enable(): the first call starts the lookup of the system device
WatchdogEnable(w) ==
    IF w.c.watchdog = "off" THEN [w EXCEPT !.c.watchdog = "enabling"] ELSE w

\* watchStates(device_id, states, unwatch)
WatchStates(w, id, unwatch) ==
    SendData(WatchdogEnable([w EXCEPT !.out.asked =
                                Append(@, [device |-> id, watch |-> ~unwatch])]),
             [Outbound("watch_states_message") EXCEPT !.device = id, !.watch = ~unwatch])

\* a faulty _reconnected() that watches whatever the flag says
DeviceReconnectedAlways(w, id) == WatchStates(w, id, FALSE)

\* BrainDevice._reconnected()
DeviceReconnected(w, id) ==
    IF w.d[id].watchRequested THEN WatchStates(w, id, FALSE) ELSE w

\* Object.values(this.devices).forEach(device => device._reconnected()), from device i on
RECURSIVE ReconnectedFrom(_, _)
ReconnectedFrom(w, i) ==
    IF i > Len(DeviceOrder) THEN w
    ELSE ReconnectedFrom(IF DeviceOrder[i] \in DOMAIN w.d
                         THEN DeviceReconnected(w, DeviceOrder[i]) ELSE w, i + 1)

\* a faulty _setConnectionStatus: the assignment without the emit
SetConnectionStatusSilently(w, status) ==
    [w EXCEPT !.c.status = status, !.out.writes = Append(@, <<w.c.status, status>>)]

\* _setConnectionStatus(status)
SetConnectionStatus(w, status) ==
    LET w1 == [w EXCEPT !.c.status = status,
                        !.out.writes = Append(@, <<w.c.status, status>>)]
        w2 == Emit(w1, [Event("CONNECTION_STATUS_CHANGED") EXCEPT !.status = status])
    IN  IF status = CONNECTION_ACTIVE /\ w2.c.isReconnecting
        THEN ReconnectedFrom([w2 EXCEPT !.c.isReconnecting = FALSE], 1)
        ELSE w2

\* submitPin(pin)
SubmitPin(w, pin) ==
    SendData(w, [Outbound("passcode_auth_msg") EXCEPT !.token = pin])

\* _attemptDefaultPinLogin(): submitPin(''), the message marked as the automatic
\* attempt for the record
AttemptDefaultPinLogin(w) ==
    SendData(w, [Outbound("passcode_auth_msg") EXCEPT !.token = "", !.action = "default"])

\* queryProvisionedInfo()
QueryProvisionedInfo(w) == SendData(w, Outbound("get_brain_stat_message"))

\* queryExpressModeEnabled()
QueryExpressModeEnabled(w) == SendData(w, Outbound("get_express_mode_flag_msg"))

\* ws.close() on a socket that is not closed yet
CloseSocket(w) ==
    IF w.ws \in {"connecting", "open"} THEN [w EXCEPT !.ws = "closing"] ELSE w

\* _disconnect()
DisconnectInternal(w) ==
    LET w1 == RecreatePromise([w EXCEPT !.c.isConnected = FALSE,
                                        !.c.isAuthenticated = FALSE], "authPromise")
    IN  IF w1.ws \notin {"none", "closed"} THEN CloseSocket(w1) ELSE w1

\* a faulty _reconnectNeeded() that does not clear the pending timer
ReconnectNeededUndebounced(w) ==
    LET w1 == DisconnectInternal([w EXCEPT !.c.isReconnecting = TRUE])
        w2 == SetConnectionStatus(w1, CONNECTION_RECONNECTING)
    IN  [w2 EXCEPT !.c.reconnectTid = TRUE, !.c.timers = @ + 1]

\* a faulty _reconnectNeeded() that sets no timer
ReconnectNeededUntimed(w) ==
    SetConnectionStatus(DisconnectInternal([w EXCEPT !.c.isReconnecting = TRUE]),
                        CONNECTION_RECONNECTING)

\* _reconnectNeeded(): the pending timer, if any, is cleared and a new one is
\* set; c.timers counts the timeouts of _reconnectNeeded that are pending
ReconnectNeeded(w) ==
    LET w1 == DisconnectInternal([w EXCEPT !.c.isReconnecting = TRUE])
        w2 == SetConnectionStatus(w1, CONNECTION_RECONNECTING)
    IN  [w2 EXCEPT !.c.reconnectTid = TRUE,
                   !.c.timers = (IF w.c.reconnectTid THEN @ - 1 ELSE @) + 1,
                   !.out.cleared = w.c.reconnectTid]

\* a faulty _connectSocket() that does not look at the socket it has
ConnectSocketUnguarded(w) ==
    [w EXCEPT !.ws = "connecting", !.inbox = <<>>, !.out.made = TRUE]

\* _connectSocket(): a new socket only without one, or with a closed one
ConnectSocket(w) ==
    IF w.ws \in {"none", "closed"}
    THEN [w EXCEPT !.ws = "connecting", !.inbox = <<>>, !.out.made = TRUE]
    ELSE w

-----------------------------------------------------------------------------
(* BrainClient._incomingBrainEvent *)

\* opts.remoteAuthorization: not configured
RemoteAuthorization == FALSE

\* _enumDevices() up to its first await: single-flighted on _enumPromise, the
\* GET of the device list is in flight while the promise is pending
\* a faulty _enumDevices() that does not look at _enumPromise
EnumDevicesAgain(w, who) ==
    [w EXCEPT !.c.enumPromise = "pending", !.c.enumFirst = who,
              !.c.enumOf = "current", !.http.devices = @ + 1]

EnumDevices(w, who) ==
    IF w.c.enumPromise # "none" THEN w
    ELSE [w EXCEPT !.c.enumPromise = "pending", !.c.enumFirst = who,
                   !.c.enumOf = "current", !.http.devices = @ + 1]

\* the message types of the model that start with "handset_"
HandsetTypes == {"handset_list_message"}

\* type.startsWith("handset_"), on the message types of the model
StartsWithHandset(type) == type \in HandsetTypes

\* if(!eventConsumed): the generic event of a message no case consumed
GenericEvent(w, type) ==
    Emit(w, [Event(IF StartsWithHandset(type) THEN "HANDSET_MESSAGE" ELSE "BRAIN_EVENT")
               EXCEPT !.id = type])

\* a faulty case "express_mode_flag_msg": express mode on leaves the status alone
ExpressModeFlagMsgUnannounced(w, enabled) ==
    IF enabled
    THEN LET w1 == [w EXCEPT !.c.authRequired = TRUE, !.c.expressModeEnabled = TRUE,
                             !.c.isAuthenticated = FALSE]
             w3 == ResolvePromise(w1, "expressModePromise", "true")
             w4 == Emit(w3, [Event("EXPRESS_MODE") EXCEPT !.status = "true"])
         IN  AttemptDefaultPinLogin(w4)
    ELSE LET w1 == [w EXCEPT !.c.authRequired = FALSE, !.c.expressModeEnabled = FALSE,
                             !.c.isAuthenticated = FALSE]
             w2 == ResolvePromise(w1, "expressModePromise", "false")
         IN  Emit(w2, [Event("EXPRESS_MODE") EXCEPT !.status = "false"])

\* case "express_mode_flag_msg"
ExpressModeFlagMsg(w, enabled) ==
    IF enabled
    THEN LET w1 == [w EXCEPT !.c.authRequired = TRUE, !.c.expressModeEnabled = TRUE,
                             !.c.isAuthenticated = FALSE]
             w2 == SetConnectionStatus(w1, CONNECTION_AUTHORIZING)
             w3 == ResolvePromise(w2, "expressModePromise", "true")
             w4 == Emit(w3, [Event("EXPRESS_MODE") EXCEPT !.status = "true"])
         IN  AttemptDefaultPinLogin(w4)
    ELSE LET w1 == [w EXCEPT !.c.authRequired = FALSE, !.c.expressModeEnabled = FALSE,
                             !.c.isAuthenticated = FALSE]
             w2 == ResolvePromise(w1, "expressModePromise", "false")
         IN  Emit(w2, [Event("EXPRESS_MODE") EXCEPT !.status = "false"])

\* a faulty case "unauthorized_message": the status without the event and the promise
UnauthorizedMessageMute(w) ==
    SetConnectionStatus(w, CONNECTION_UNAUTHORIZED)

\* case "unauthorized_message"
UnauthorizedMessage(w) ==
    LET w1 == Emit(w, Event("PIN_REQUIRED"))
        w2 == ResolvePromise(w1, "loginNeededPromise", "true")
    IN  SetConnectionStatus(w2, CONNECTION_UNAUTHORIZED)

\* case "authorized_message"
AuthorizedMessage(w) ==
    LET w1 == Emit([w EXCEPT !.c.isAuthenticated = TRUE], Event("AUTHORIZED"))
        w2 == ResolvePromise(w1, "loginNeededPromise", "false")
        w3 == ResolvePromise(w2, "authPromise", "void")
    IN  SetConnectionStatus(w3, CONNECTION_ACTIVE)

\* case "system_state_message": with devices enumerated, going active waits for
\* _enumDevices() and the handler is suspended (activating counts such handlers)
\* the case sets no eventConsumed, so the generic event follows it
SystemStateMessage(w, brainState) ==
    LET type == "system_state_message"
    IN  IF brainState \in ActiveStates
        THEN IF w.c.syncFlag
             THEN LET w1 == [w EXCEPT !.c.syncFlag = FALSE]
                  IN  IF w1.c.devicesEnumerated
                      THEN IF w1.c.enumPromise = "rejected" THEN w1
                           ELSE [EnumDevices(w1, "sync") EXCEPT !.c.activating = @ + 1]
                      ELSE GenericEvent(SetConnectionStatus(w1, CONNECTION_ACTIVE), type)
             ELSE GenericEvent(w, type)
        ELSE IF brainState \in SyncStates
        THEN GenericEvent(SetConnectionStatus([w EXCEPT !.c.syncFlag = TRUE],
                                              CONNECTION_SYNCHRONIZING), type)
        ELSE IF brainState \in FailureStates
        THEN GenericEvent(SetConnectionStatus(w, CONNECTION_FAILURE), type)
        ELSE GenericEvent(w, type)

\* a system_state_message handler suspended in await this._enumDevices() goes on
ActivatingContinues(w) ==
    GenericEvent(SetConnectionStatus(w, CONNECTION_ACTIVE), "system_state_message")

-----------------------------------------------------------------------------
(* Values: wire strings are sequences of characters; a state's value and    *)
(* normalizedValue are null, a string, a number or NaN.                     *)

Null == [t |-> "null", s |-> <<>>, n |-> 0]
NaN == [t |-> "NaN", s |-> <<>>, n |-> 0]
Str(s) == [t |-> "string", s |-> s, n |-> 0]
Num(n) == [t |-> "number", s |-> <<>>, n |-> n]

DigitChars == <<"0", "1", "2", "3", "4", "5", "6", "7", "8", "9">>

IsDigit(ch) == \E i \in 1..10 : DigitChars[i] = ch

DigitValue(ch) == (CHOOSE i \in 1..10 : DigitChars[i] = ch) - 1

\* the length of the longest prefix of s made of digits
RECURSIVE DigitPrefix(_)
DigitPrefix(s) ==
    IF s = <<>> \/ ~IsDigit(Head(s)) THEN 0 ELSE 1 + DigitPrefix(Tail(s))

\* the number the digits s denote, after the digits read so far denote acc
RECURSIVE DigitsToNat(_, _)
DigitsToNat(s, acc) ==
    IF s = <<>> THEN acc ELSE DigitsToNat(Tail(s), 10 * acc + DigitValue(Head(s)))

\* parseFloat(s), on strings of digits and other characters (no sign, point,
\* exponent or white space): the longest numeric prefix, NaN without one
ParseFloat(s) ==
    IF DigitPrefix(s) = 0 THEN NaN
    ELSE Num(DigitsToNat(SubSeq(s, 1, DigitPrefix(s)), 0))

\* the decimal digits of n
RECURSIVE NatToDigits(_)
NatToDigits(n) ==
    IF n < 10 THEN <<DigitChars[n + 1]>>
    ELSE Append(NatToDigits(n \div 10), DigitChars[(n % 10) + 1])

\* value + "": the string of a number, a string as it is
Stringify(v) ==
    CASE v.t = "number" -> NatToDigits(v.n)
      [] v.t = "string" -> v.s
      [] v.t = "NaN" -> <<"N", "a", "N">>
      [] OTHER -> <<"n", "u", "l", "l">>

-----------------------------------------------------------------------------
(* BrainDevice *)

\* _specificStates: null (on = FALSE), or the flags of the awaited state ids
NoSpecific == [on |-> FALSE, keys |-> {}, got |-> {}]
Specific(ids) == [on |-> TRUE, keys |-> ids, got |-> {}]

\* one state_changes record of a state_change_message
Change(id, value, norm) == [id |-> id, value |-> value, norm |-> norm]

\* _statesById[key] || _statesByName[key]: the id found, "undefined" without one
LookupState(dev, key) ==
    IF key \in DOMAIN dev.states THEN key
    ELSE IF \E id \in DOMAIN dev.states : dev.states[id].name = key
         THEN CHOOSE id \in DOMAIN dev.states : dev.states[id].name = key
         ELSE "undefined"

\* getCommand(key): _commandsById[key] || _commandsByName[key]
LookupCommand(dev, key) ==
    IF key \in DOMAIN dev.commands THEN key
    ELSE IF \E id \in DOMAIN dev.commands : dev.commands[id].name = key
         THEN CHOOSE id \in DOMAIN dev.commands : dev.commands[id].name = key
         ELSE "undefined"

\* a faulty _watchStateChanges: the watch is asked for whatever the flag
WatchStateChangesAgain(w, id) ==
    WatchStates([w EXCEPT !.d[id].watchRequested = TRUE], id, FALSE)

\* _watchStateChanges(): one watch message, suppressed while one is requested
WatchStateChanges(w, id) ==
    IF w.d[id].watchRequested THEN w
    ELSE WatchStates([w EXCEPT !.d[id].watchRequested = TRUE], id, FALSE)

\* _unwatchStateChanges()
UnwatchStateChanges(w, id) ==
    WatchStates([w EXCEPT !.d[id].watchRequested = FALSE], id, TRUE)

\* a faulty state update: normalizedValue is stored as delivered whatever the type
CoerceNever(type, norm) == Str(norm)

\* state.normalizedValue of processStateChanges: a number for type "number"
Coerce(type, norm) ==
    IF type = "number" THEN ParseFloat(norm) ELSE Str(norm)

\* the waiter completion of processStateChanges for a change of state id: the
\* flags that are set are counted (fl), and completed is fl.length === 0
Completed(spec, id) ==
    IF spec.on /\ id \in spec.keys
    THEN Cardinality(spec.got \cup {id}) = 0
    ELSE TRUE

\* the body of stateChangeList.forEach in processStateChanges, for device id
ApplyChange(w, id, ch) ==
    LET dev == w.d[id]
        known == ch.id \in DOMAIN dev.states
        w0 == [w EXCEPT !.d[id].applied = TRUE]
        w1 == IF known
              THEN [w0 EXCEPT !.d[id].states[ch.id].value = Str(ch.value),
                              !.d[id].states[ch.id].normalizedValue =
                                  Coerce(dev.states[ch.id].type, ch.norm)]
              ELSE w0
        \* every pending sendCommand on the device whose command refers to ch.id
        \* has now seen an update of it
        w2 == [w1 EXCEPT !.calls = [a \in DOMAIN w1.calls |->
                   IF /\ w1.calls[a].dev = id
                      /\ w1.calls[a].op = "sendCommand"
                      /\ w1.calls[a].pc \in {"waiting", "ready"}
                      /\ ch.id \in dev.commands[w1.calls[a].key].states
                   THEN [w1.calls[a] EXCEPT !.fresh = @ \cup {ch.id}]
                   ELSE w1.calls[a]]]
        marked == IF dev.specific.on /\ ch.id \in dev.specific.keys
                  THEN [w2 EXCEPT !.d[id].specific.got = @ \cup {ch.id}]
                  ELSE w2
        w3 == IF dev.statePromise = "pending"
              THEN IF Completed(dev.specific, ch.id)
                   THEN [marked EXCEPT !.d[id].statePromise = "null",
                                       !.calls = [a \in DOMAIN marked.calls |->
                                           IF marked.calls[a].dev = id
                                              /\ marked.calls[a].pc = "waiting"
                                           THEN [marked.calls[a] EXCEPT !.pc = "ready"]
                                           ELSE marked.calls[a]]]
                   ELSE marked
              ELSE w2
        w4 == Emit(w3, [Event("STATE_CHANGED") EXCEPT !.on = id, !.id = ch.id,
                                                      !.value = ch.value, !.norm = ch.norm])
    IN  \* the watchdog's listener restarts the deadman timer
        IF dev.wdListener THEN [w4 EXCEPT !.c.deadmanTimer = TRUE] ELSE w4

\* stateChangeList.forEach(...), from record i on
RECURSIVE ApplyChangesFrom(_, _, _, _)
ApplyChangesFrom(w, id, list, i) ==
    IF i > Len(list) THEN w
    ELSE ApplyChangesFrom(ApplyChange(w, id, list[i]), id, list, i + 1)

\* a faulty processStateChanges: _hasStateChanges is left as it was
ProcessStateChangesForgetful(w, id, list) == ApplyChangesFrom(w, id, list, 1)

\* processStateChanges(stateChangeList)
ProcessStateChanges(w, id, list) ==
    ApplyChangesFrom([w EXCEPT !.d[id].hasStateChanges = TRUE], id, list, 1)

\* case "state_change_message": routed by device_id, logged without a device
StateChangeMessage(w, f) ==
    IF f.device \in DOMAIN w.d THEN ProcessStateChanges(w, f.device, f.changes) ELSE w

-----------------------------------------------------------------------------
(* Calls of the application on a device.  A call is "waiting" while it      *)
(* awaits _statePromise and "ready" once the promise is resolved (its       *)
(* continuation runs before the next handler); when it is over, "done" or   *)
(* "failed", it is handed to out.finished and its slot is free again.       *)

NoResult == [id \in {} |-> Null]

NoCall ==
    [who |-> "", op |-> "none", dev |-> "none", pc |-> "idle", key |-> "",
     sent |-> Null, fresh |-> {}, result |-> NoResult, error |-> ""]

StartCall(w, a, op, id, key, sent) ==
    [w EXCEPT !.calls[a] = [NoCall EXCEPT !.who = a, !.op = op, !.dev = id,
                                          !.pc = "running", !.key = key,
                                          !.sent = sent]]

\* the call throws
FailCall(w, a, error) ==
    [w EXCEPT !.out.finished = Append(@, [w.calls[a] EXCEPT !.pc = "failed",
                                                            !.error = error]),
              !.calls[a] = NoCall]

\* _ensureStateValues(specificStates), awaited by call a ("none": by nobody)
EnsureStateValues(w, a, id, spec) ==
    IF ~w.d[id].hasStateChanges
    THEN LET w1 == [w EXCEPT !.d[id].statePromise = "pending", !.d[id].specific = spec]
             w2 == WatchStateChanges(w1, id)
         IN  IF a = "none" THEN w2 ELSE [w2 EXCEPT !.calls[a].pc = "waiting"]
    ELSE IF a = "none" THEN w ELSE [w EXCEPT !.calls[a].pc = "ready"]

\* getStates()
GetStates(w, a, id) ==
    EnsureStateValues(StartCall(w, a, "getStates", id, "", Null), a, id, NoSpecific)

\* getState(key)
GetState(w, a, id, key) ==
    EnsureStateValues(StartCall(w, a, "getState", id, key, Null), a, id, NoSpecific)

\* the names of command parameters the application uses, and name.toUpperCase()
ParamNames == {"level"}
ToUpperCase(name) == IF name = "level" THEN "LEVEL" ELSE name

\* static_parameters of sendCommand: names uppercased, values stringified
StaticParameters(params) ==
    [i \in 1..Len(params) |->
        [name |-> ToUpperCase(params[i].name), value |-> Stringify(params[i].value)]]

\* sendCommand(key, params), key a command id or name
SendCommand(w, a, id, key, params) ==
    LET w0 == StartCall(w, a, "sendCommand", id, key, Null)
        cmd == LookupCommand(w.d[id], key)
    IN  IF cmd = "undefined" THEN FailCall(w0, a, "ErrorInvalidCommand")
        ELSE LET w1 == SendData(w0, [Outbound("send_macro_message") EXCEPT
                                        !.action = "command", !.device = id,
                                        !.target = cmd,
                                        !.params = StaticParameters(params)])
                 w2 == [w1 EXCEPT !.d[id].hasStateChanges = FALSE,
                                  !.calls[a].key = cmd]
             IN  EnsureStateValues(w2, a, id, Specific(w.d[id].commands[cmd].states))

\* a key of setCustomState: a state record of the device (kind "object", key.id
\* is its id) or a string
ObjectKey(id) == [kind |-> "object", id |-> id]
StringKey(str) == [kind |-> "string", id |-> str]

\* const state = key.id ? key : this.getState(key): for a string the result is
\* the promise of the getState call that has been started, and nobody awaits it
ResolveKey(w, id, key) ==
    IF key.kind = "object"
    THEN [w |-> w, truthy |-> TRUE, state |-> key.id]
    ELSE [w |-> EnsureStateValues(w, "none", id, NoSpecific), truthy |-> TRUE,
          state |-> "promise"]

\* state._isCustomState, of a state record or of a promise
IsCustomState(dev, state) ==
    state \in DOMAIN dev.states /\ dev.states[state].custom

\* setCustomState(key, value)
SetCustomState(w, a, id, key, value) ==
    LET w0 == StartCall(w, a, "setCustomState", id, key.id, value)
    IN  IF ~w.d[id].isSystem THEN FailCall(w0, a, "ErrorNotSystemDevice")
        ELSE LET r == ResolveKey(w0, id, key)
             IN  IF ~r.truthy \/ ~IsCustomState(w.d[id], r.state)
                 THEN FailCall(r.w, a, "ErrorInvalidState")
                 ELSE LET w1 == SendData(r.w, [Outbound("send_macro_message") EXCEPT
                                    !.action = "state_change", !.device = id,
                                    !.target = r.state,
                                    !.params = <<[name |-> "New_Value",
                                                  value |-> Stringify(value)]>>])
                          w2 == [w1 EXCEPT !.d[id].hasStateChanges = FALSE,
                                           !.calls[a].key = r.state]
                      IN  EnsureStateValues(w2, a, id, NoSpecific)

\* getDevices() of a caller that does not wait for the address or the socket:
\* just-in-time enumeration; the await of a rejected _enumPromise throws
GetDevices(w, a) ==
    LET w1 == StartCall(w, a, "getDevices", "none", "", Null)
    IN  IF w1.c.devicesEnumerated THEN [w1 EXCEPT !.calls[a].pc = "ready"]
        ELSE IF w1.c.enumPromise = "rejected" THEN FailCall(w1, a, "rejected")
        ELSE [EnumDevices(w1, a) EXCEPT !.calls[a].pc = "enum"]

\* the rest of a call after its await; getDevices() returns this.devices as
\* it is then
CallContinues(w, a) ==
    LET c == w.calls[a]
        dev == w.d[c.dev]
        res == CASE c.op = "getDevices" -> [id \in DOMAIN w.d |-> Null]
                 [] c.op = "sendCommand" ->
                      [sid \in dev.commands[c.key].states |-> dev.states[sid].value]
                 [] c.op = "setCustomState" ->
                      [sid \in {c.key} |-> dev.states[sid].value]
                 [] c.op = "getState" /\ LookupState(dev, c.key) # "undefined" ->
                      [sid \in {LookupState(dev, c.key)} |-> dev.states[sid].value]
                 [] OTHER -> NoResult
    IN  [w EXCEPT !.out.finished = Append(@, [c EXCEPT !.pc = "done", !.result = res]),
                  !.calls[a] = NoCall,
                  !.c.devicesEnumerated = (@ \/ c.op = "getDevices")]

DevCallers == {"a", "b"}
CallOrder == <<"a", "b">>

\* the continuations of the calls whose promise has been resolved, from call i on
RECURSIVE RunCallsFrom(_, _)
RunCallsFrom(w, i) ==
    IF i > Len(CallOrder) THEN w
    ELSE RunCallsFrom(IF w.calls[CallOrder[i]].pc = "ready"
                      THEN CallContinues(w, CallOrder[i]) ELSE w, i + 1)

-----------------------------------------------------------------------------
(* ConnectionWatchdog *)

\* enable() after await this.client.getDevice('System Device'), which takes no
\* handler of its own on a connected client with its devices enumerated:
\* sys.on(STATE_CHANGED, ...) on the device of that id or name
WatchdogAttach(w) ==
    IF w.c.watchdog = "enabling" /\ w.c.isConnected /\ w.c.devicesEnumerated
    THEN LET found == {id \in DOMAIN w.d : id = "System Device"
                                            \/ w.d[id].name = "System Device"}
             w1 == [w EXCEPT !.c.watchdog = "on"]
         IN  IF found = {} THEN w1
             ELSE LET sys == CHOOSE id \in found : TRUE
                  IN  WatchStateChanges([w1 EXCEPT !.d[sys].wdListener = TRUE], sys)
    ELSE w

-----------------------------------------------------------------------------
(* connectToBrain(ip, pin), as the call k of the application.  The call     *)
(* runs up to an await of a pending promise; when a handler resolves the    *)
(* promise, the call goes on before the next handler runs.                  *)

NoConnect == [pc |-> "idle", woke |-> "", pin |-> "", result |-> ""]

Block(w, k, pc) == [w EXCEPT !.app[k].pc = pc, !.app[k].woke = ""]

Finish(w, k, result) ==
    [w EXCEPT !.app[k].pc = "done", !.app[k].woke = "", !.app[k].result = result]

Throw(w, k, error) ==
    [w EXCEPT !.app[k].pc = "failed", !.app[k].woke = "", !.app[k].result = error]

\* setupConnection after await this.isAuthorized(); connectToBrain returns the status
AfterAuthorized(w, k) == Finish(w, k, w.c.status)

\* await this.isAuthorized()
StageAuthorized(w, k) ==
    IF w.c.isAuthenticated \/ Settled(w.c.authPromise)
    THEN AfterAuthorized(w, k)
    ELSE Block(w, k, "awaitAuth")

\* if(await this.isLoginNeeded()) this.submitPin(pin), with the value awaited
AfterLoginNeeded(w, k, needed) ==
    StageAuthorized(IF needed = "true" THEN SubmitPin(w, w.app[k].pin) ELSE w, k)

\* await this.isLoginNeeded()
StageLoginNeeded(w, k) ==
    IF w.c.isAuthenticated THEN AfterLoginNeeded(w, k, "false")
    ELSE IF Settled(w.c.loginNeededPromise)
    THEN AfterLoginNeeded(w, k, w.c.loginNeededPromise)
    ELSE Block(w, k, "awaitLogin")

\* _auditConnection after await this.isExpressModeEnabled(), with the value awaited
AfterExpressMode(w, k, enabled) ==
    IF enabled = "true" THEN StageLoginNeeded(w, k)
    ELSE Throw(w, k, "ErrorExpressModeDisabled")

\* await this.isExpressModeEnabled()
StageExpressMode(w, k) ==
    IF w.c.expressModeEnabled THEN AfterExpressMode(w, k, "true")
    ELSE IF Settled(w.c.expressModePromise)
    THEN AfterExpressMode(w, k, w.c.expressModePromise)
    ELSE Block(w, k, "awaitExpress")

\* a faulty connectToBrain that does not bail out on failure
AfterPrepareUnchecked(w, k) ==
    IF w.c.info # "provisioned" THEN Throw(w, k, "ErrorNotProvisioned")
    ELSE StageExpressMode(w, k)

\* connectToBrain after await this.prepareConnection(ip): the bail-out on
\* failure, then setupConnection and _auditConnection up to isProvisioned()
AfterPrepare(w, k) ==
    IF w.c.status = CONNECTION_FAILURE THEN Finish(w, k, CONNECTION_FAILURE)
    ELSE IF w.c.info # "provisioned" THEN Throw(w, k, "ErrorNotProvisioned")
    ELSE StageExpressMode(w, k)

\* the continuation of call k, woken with the value of the promise it awaited
Resume(w, k) ==
    LET pc == w.app[k].pc
        v == w.app[k].woke
    IN  CASE pc = "awaitConnection" -> AfterPrepare(w, k)
          [] pc = "awaitExpress" -> AfterExpressMode(w, k, v)
          [] pc = "awaitLogin" -> AfterLoginNeeded(w, k, v)
          [] pc = "awaitAuth" -> AfterAuthorized(w, k)
          [] OTHER -> w

\* the connectToBrain calls an application may have made, in the order in
\* which their continuations run
ConnectOrder == <<"k1", "k2">>

RECURSIVE RunConnectsFrom(_, _)
RunConnectsFrom(w, i) ==
    IF i > Len(ConnectOrder) THEN w
    ELSE RunConnectsFrom(IF ConnectOrder[i] \in DOMAIN w.app
                            /\ w.app[ConnectOrder[i]].woke # ""
                         THEN Resume(w, ConnectOrder[i]) ELSE w, i + 1)

\* what runs between two handlers: the continuations of the calls woken
Settle(w) == WatchdogAttach(RunCallsFrom(RunConnectsFrom(w, 1), 1))

-----------------------------------------------------------------------------
(* _incomingBrainEvent({ type, ...data }) *)

IncomingBrainEvent(w, f) ==
    LET w0 == Emit([w EXCEPT !.out.handled = f], Event("WS_MESSAGE"))
    IN  CASE f.type = "brain_status_message" ->
               LET w1 == Emit(w0, Event("STATUS_MESSAGE"))
               IN  IF f.flag /\ ~RemoteAuthorization
                   THEN QueryExpressModeEnabled(w1) ELSE w1
          [] f.type = "brain_status_color_msg" -> Emit(w0, Event("COLOR_MESSAGE"))
          [] f.type = "express_mode_flag_msg" -> ExpressModeFlagMsg(w0, f.flag)
          [] f.type = "unauthorized_message" -> UnauthorizedMessage(w0)
          [] f.type = "authorized_message" -> AuthorizedMessage(w0)
          [] f.type = "state_change_message" -> StateChangeMessage(w0, f)
          [] f.type = "system_state_message" -> SystemStateMessage(w0, f.state)
          [] OTHER -> GenericEvent(w0, f.type)

-----------------------------------------------------------------------------
(* The client before connectToBrain, and the controller it will talk to *)

NoDevices == [id \in {} |-> 0]

\* no REST request in flight
NoHttp == [restart |-> 0, devices |-> 0, driver |-> "none"]

\* enumPromise is _enumPromise: "none" (null), "pending" or "rejected";
\* enumFirst is the caller that runs the body of _enumDevices ("sync": a
\* system_state_message handler); enumOf tells whether _enumPromise was made
\* for the connection of the last prepareConnection or for one before it
FreshClient ==
    [ipSet |-> FALSE, status |-> NoStatus, authRequired |-> FALSE,
     expressModeEnabled |-> FALSE, isAuthenticated |-> FALSE, isConnected |-> FALSE,
     isReconnecting |-> FALSE, manuallyDisconnected |-> FALSE,
     devicesEnumerated |-> FALSE, syncFlag |-> FALSE, info |-> "none",
     isProvisionedPromise |-> "undefined", connectionPromise |-> "undefined",
     expressModePromise |-> "undefined", loginNeededPromise |-> "undefined",
     authPromise |-> "undefined", reconnectTid |-> FALSE, watchdog |-> "off",
     deadmanTimer |-> FALSE, enumPromise |-> "none", enumWaiters |-> 0,
     activating |-> 0, enumFirst |-> "none", enumOf |-> "none", timers |-> 0]

\* a controller: its PIN, whether express mode is on, whether a space is provisioned
Brain(pin, express, provisioned) ==
    [pin |-> pin, express |-> express, provisioned |-> provisioned,
     watching |-> {}, pending |-> {}, listed |-> {"D1", "D2"}]

Init ==
    /\ client = FreshClient
    /\ devices = NoDevices
    /\ ws = "none"
    /\ inbox = <<>>
    /\ \E pin \in Pins, express \in BOOLEAN, provisioned \in BOOLEAN :
          brain = Brain(pin, express, provisioned)
    /\ app = [k \in ConnCallers |-> NoConnect]
    /\ calls = [a \in DevCallers |-> NoCall]
    /\ http = NoHttp
    /\ out = NoOut
    /\ lastStatus = NoStatus
    /\ statusSeen = <<>>
    /\ quiet = TRUE
    /\ registry = NoRegistry
    /\ request = NoRequest

-----------------------------------------------------------------------------
(* The handlers of the connection *)

\* every handler: run it, then the continuations it woke; the controller has
\* room for the replies
Handle(w) == Fits(Settle(w)) /\ Commit(Settle(w))

\* connectToBrain(ip, pin) up to await this.brainInfo() in prepareConnection
ConnectToBrain(k, pin) ==
    /\ app[k].pc \in {"idle", "done", "failed", "orphaned"}
    /\ LET w0 == [World EXCEPT !.c.ipSet = TRUE, !.seen = <<>>,
                               !.quiet = ws \in {"none", "closed"}]
           w1 == SetConnectionStatus(w0, CONNECTION_CONNECTING)
           w2 == [w1 EXCEPT !.c.authRequired = FALSE, !.c.expressModeEnabled = FALSE,
                            !.c.isAuthenticated = FALSE, !.d = NoDevices,
                            !.c.devicesEnumerated = FALSE,
                            !.c.enumOf = IF @ = "none" THEN @ ELSE "previous"]
           w3 == RecreatePromise(RecreatePromise(RecreatePromise(RecreatePromise(
                     RecreatePromise(w2, "isProvisionedPromise"), "connectionPromise"),
                     "expressModePromise"), "loginNeededPromise"), "authPromise")
       IN  Handle([w3 EXCEPT !.app[k] = [NoConnect EXCEPT !.pc = "bootstrap",
                                                          !.pin = pin]])

\* the answer to GET general: brainInfo() and the rest of prepareConnection, or
\* its catch.  "timeout" is the object { timeout: true }, on which brainInfo()
\* throws; "error" is any other failure (network error, 403, 5xx, a body that
\* is not JSON), an object without result, on which brainInfo() stores
\* undefined and throws reading brain_provisioned
HttpGeneralResponds(k, res) ==
    /\ app[k].pc = "bootstrap"
    /\ IF res = "ok"
       THEN LET w1 == [World EXCEPT !.out.answer = res,
                                   !.c.info = IF brain.provisioned THEN "provisioned"
                                              ELSE "unprovisioned"]
                w2 == [ResolvePromise(w1, "isProvisionedPromise", w1.c.info)
                         EXCEPT !.c.isProvisionedPromise = "null",
                                !.c.manuallyDisconnected = FALSE,
                                !.c.isReconnecting = FALSE]
                w3 == [ConnectSocket(w2) EXCEPT !.c.watchdog = "off"]
            IN  Handle(IF Settled(w3.c.connectionPromise)
                       THEN AfterPrepare(w3, k)
                       ELSE Block(w3, k, "awaitConnection"))
       ELSE LET w0 == [World EXCEPT !.out.answer = res, !.quiet = FALSE,
                                   !.c.info = IF res = "error" THEN "none" ELSE @]
                w1 == SetConnectionStatus(w0, CONNECTION_FAILURE)
            IN  Handle(AfterPrepare(w1, k))

\* ws.onopen
WsOpen ==
    /\ ws = "connecting"
    /\ LET w1 == [World EXCEPT !.ws = "open", !.c.isConnected = TRUE,
                               !.c.manuallyDisconnected = FALSE]
           w2 == Emit(ResolvePromise(w1, "connectionPromise", "void"),
                      Event("WS_CONNECTED"))
       IN  Handle(IF RemoteAuthorization THEN w2 ELSE QueryProvisionedInfo(w2))

\* ws.onmessage, for the oldest frame in flight
Deliver ==
    /\ ws \in {"open", "closing"}
    /\ inbox # <<>>
    /\ Handle(IncomingBrainEvent([World EXCEPT !.inbox = Tail(@)], Head(inbox)))

\* the controller reports its system state, unasked
BrainSendsSys(state) ==
    /\ ws = "open"
    /\ Handle([World EXCEPT !.quiet = FALSE,
                            !.inbox = Append(@, [Frame("system_state_message")
                                                   EXCEPT !.state = state])])

\* ws.onclose: the socket is closed by either side, or fails to open
WsClose ==
    /\ ws \in {"connecting", "open", "closing"}
    /\ LET w0 == [World EXCEPT !.ws = "closed", !.inbox = <<>>,
                               !.brain.watching = {}, !.quiet = FALSE]
           w1 == SetConnectionStatus(Emit(w0, Event("WS_CLOSED")),
                                     CONNECTION_DISCONNECTED)
           w2 == DisconnectInternal(w1)
       IN  Handle(IF ~w2.c.manuallyDisconnected THEN ReconnectNeeded(w2) ELSE w2)

\* ws.onerror: a socket that is not closed yet reports an error, and
\* delivers no frame after it
WsError ==
    /\ ws \in {"connecting", "open", "closing"}
    /\ Handle(ReconnectNeeded([World EXCEPT !.quiet = FALSE, !.inbox = <<>>]))

\* the timer of _reconnectNeeded fires
ReconnectTimer ==
    /\ client.timers > 0
    /\ Handle([ConnectSocket([World EXCEPT !.quiet = FALSE])
                 EXCEPT !.c.reconnectTid = FALSE, !.c.timers = @ - 1])

\* disconnect(), on a client that has been given an address
Disconnect ==
    /\ client.ipSet
    /\ Handle(DisconnectInternal([World EXCEPT !.d = NoDevices,
                                            !.c.devicesEnumerated = FALSE,
                                            !.c.manuallyDisconnected = TRUE,
                                            !.quiet = FALSE]))

\* the application calls submitPin(pin) itself, once it is told a PIN is required
AppSubmitPin(pin) ==
    /\ client.isConnected
    /\ client.status = CONNECTION_UNAUTHORIZED
    /\ Handle(SubmitPin(World, pin))

Next ==
    \/ \E k \in ConnCallers, pin \in Pins : ConnectToBrain(k, pin)
    \/ \E k \in ConnCallers, res \in {"ok", "timeout", "error"} :
          HttpGeneralResponds(k, res)
    \/ WsOpen
    \/ Deliver
    \/ WsClose
    \/ WsError
    \/ ReconnectTimer
    \/ Disconnect
    \/ \E pin \in Pins : AppSubmitPin(pin)

\* the handshake and the life of the socket, with a controller that reports
\* no system state
Spec == Init /\ [][Next]_vars

-----------------------------------------------------------------------------
(* The same with a provisioned controller in express mode that reports its  *)
(* system state whenever it likes                                           *)

InitSync ==
    /\ Init
    /\ brain.express /\ brain.provisioned /\ brain.pin = ""

NextSync ==
    \/ Next
    \/ \E state \in SentSysStates : BrainSendsSys(state)

SpecSync == InitSync /\ [][NextSync]_vars

-----------------------------------------------------------------------------
(* The devices of the space, as GET devices and the drivers describe them:  *)
(* the system device with a clock state, a state a command refers to and a  *)
(* custom state, and a display with two states a command refers to          *)

State(name, type, custom) ==
    [name |-> name, type |-> type, custom |-> custom, value |-> Null,
     normalizedValue |-> Null]

Command(name, states) == [name |-> name, states |-> states]

\* new BrainDevice(client, data): _updateData(data), _hasStateChanges = false
Device(name, isSystem, states, commands) ==
    [name |-> name, isSystem |-> isSystem, states |-> states, commands |-> commands,
     hasStateChanges |-> FALSE, statePromise |-> "null", specific |-> NoSpecific,
     watchRequested |-> FALSE, listeners |-> <<>>, wdListener |-> FALSE,
     applied |-> FALSE]

SystemStates ==
    [sid \in {"SECOND_STATE", "SYSTEM_STATE", "CUSTOM_1"} |->
        CASE sid = "SECOND_STATE" -> State("Second", "number", FALSE)
          [] sid = "SYSTEM_STATE" -> State("System State", "string", FALSE)
          [] OTHER -> State("My Custom State", "string", TRUE)]

SystemCommands ==
    [cid \in {"SET_SYSTEM_USE"} |-> Command("Set System Use", {"SYSTEM_STATE"})]

DisplayStates == [sid \in {"VOLUME"} |-> State("Volume", "number", FALSE)]

DisplayCommands == [cid \in {"SET_VOLUME"} |-> Command("Set Volume", {"VOLUME"})]

EnumeratedDevices ==
    [id \in {"D1", "D2"} |->
        IF id = "D1" THEN Device("System Device", TRUE, SystemStates, SystemCommands)
        ELSE Device("Display", FALSE, DisplayStates, DisplayCommands)]

-----------------------------------------------------------------------------
(* Listeners of STATE_CHANGED on a device.  A listener is the number of      *)
(* parameters its function declares; EventEmitter keeps one listener as the *)
(* function itself and several as an array.                                 *)

MaxListeners == 2

\* the list without its first element equal to x
RECURSIVE RemoveFirst(_, _)
RemoveFirst(list, x) ==
    IF list = <<>> THEN <<>>
    ELSE IF Head(list) = x THEN Tail(list)
    ELSE <<Head(list)>> \o RemoveFirst(Tail(list), x)

\* this._events[STATE_CHANGED] of the device: the watchdog's listener declares
\* no parameter
Listeners(dev) == dev.listeners \o (IF dev.wdListener THEN <<0>> ELSE <<>>)

\* device.on(STATE_CHANGED, callback)
DeviceOn(w, id, arity) ==
    WatchStateChanges([w EXCEPT !.d[id].listeners = Append(@, arity)], id)

\* a faulty device.off: the listeners left are counted, whatever they declare
DeviceOffCounting(w, id, arity) ==
    LET w1 == [w EXCEPT !.d[id].listeners = RemoveFirst(@, arity)]
    IN  IF Listeners(w1.d[id]) = <<>> THEN UnwatchStateChanges(w1, id) ELSE w1

\* device.off(STATE_CHANGED, callback): !this._events[sc] || this._events[sc].length <= 0,
\* where the length of a function is the number of its parameters
DeviceOff(w, id, arity) ==
    LET w1 == [w EXCEPT !.d[id].listeners = RemoveFirst(@, arity)]
        left == Listeners(w1.d[id])
        length == IF Len(left) = 1 THEN left[1] ELSE Len(left)
    IN  IF left = <<>> \/ length <= 0 THEN UnwatchStateChanges(w1, id) ELSE w1

-----------------------------------------------------------------------------
(* The devices in use: a connected, authorized client with its devices      *)
(* enumerated, an application that calls the devices, and a controller that *)
(* reports state changes of the devices it was asked to watch               *)

\* state changes in one state_change_message
MaxChanges == 2

\* the value the controller reports for a state of a type
ReportValue(type) == IF type = "number" THEN <<"7">> ELSE <<"o", "n">>

\* the values the application sets custom states to
SetValues == {Num(42)}

\* the records the controller may report for device id: any state of the
\* driver, and the custom states set and not reported yet
Reportable(id) ==
    {Change(sid, ReportValue(devices[id].states[sid].type),
            ReportValue(devices[id].states[sid].type)) :
        sid \in {x \in DOMAIN devices[id].states : ~devices[id].states[x].custom}}
    \cup {Change(p.id, p.value, p.value) : p \in {q \in brain.pending : q.device = id}}

\* the lists of one to MaxChanges different records
ChangeLists(records) ==
    {list \in UNION {[1..n -> records] : n \in 1..MaxChanges} :
        \A i, j \in 1..Len(list) : i # j => list[i] # list[j]}

ActiveClient ==
    [FreshClient EXCEPT !.ipSet = TRUE, !.status = CONNECTION_ACTIVE,
                        !.authRequired = TRUE, !.expressModeEnabled = TRUE,
                        !.isAuthenticated = TRUE, !.isConnected = TRUE,
                        !.devicesEnumerated = TRUE, !.info = "provisioned",
                        !.isProvisionedPromise = "null", !.connectionPromise = "void",
                        !.expressModePromise = "true", !.loginNeededPromise = "false",
                        !.authPromise = "void"]

InitDevice ==
    /\ client = ActiveClient
    /\ devices = EnumeratedDevices
    /\ ws = "open"
    /\ inbox = <<>>
    /\ brain = Brain("", TRUE, TRUE)
    /\ app = [k \in ConnCallers |->
                [NoConnect EXCEPT !.pc = "done", !.result = CONNECTION_ACTIVE]]
    /\ calls = [a \in DevCallers |-> NoCall]
    /\ http = NoHttp
    /\ out = NoOut
    /\ lastStatus = CONNECTION_ACTIVE
    /\ statusSeen = <<CONNECTION_CONNECTING, CONNECTION_AUTHORIZING, CONNECTION_ACTIVE>>
    /\ quiet = TRUE
    /\ registry = NoRegistry
    /\ request = NoRequest

\* a call slot of the application is free
Free(a) == calls[a].pc = "idle"

CallGetStates(a, id) ==
    /\ Free(a)
    /\ Handle(GetStates(World, a, id))

CallGetState(a, id, key) ==
    /\ Free(a)
    /\ Handle(GetState(World, a, id, key))

CallSendCommand(a, id, key, params) ==
    /\ Free(a)
    /\ Handle(SendCommand(World, a, id, key, params))

CallSetCustomState(a, id, key, value) ==
    /\ Free(a)
    /\ Handle(SetCustomState(World, a, id, key, value))

ListenerOn(id, arity) ==
    /\ Len(devices[id].listeners) < MaxListeners
    /\ Handle(DeviceOn(World, id, arity))

ListenerOff(id, arity) ==
    /\ \E i \in 1..Len(devices[id].listeners) : devices[id].listeners[i] = arity
    /\ Handle(DeviceOff(World, id, arity))

\* the controller reports state changes of a device it was asked to watch,
\* one message at a time
BrainReports(id, list) ==
    /\ ws = "open"
    /\ inbox = <<>>
    /\ id \in brain.watching
    /\ Handle([World EXCEPT
          !.brain.pending = {p \in @ : ~(p.device = id /\ \E i \in 1..Len(list) :
                                            list[i] = Change(p.id, p.value, p.value))},
          !.inbox = Append(@, [Frame("state_change_message")
                                 EXCEPT !.device = id, !.changes = list])])

\* the keys the application passes: ids, names and strings that name nothing
CommandKeys == {"Set System Use", "NOPE"}
StateKeys == {"CUSTOM_1", "NOPE"}
CustomKeys ==
    {ObjectKey("CUSTOM_1"), ObjectKey("SYSTEM_STATE")}
    \cup {StringKey(str) : str \in {"CUSTOM_1", "My Custom State", "NOPE"}}

\* the params of sendCommand
ParamLists == {<<[name |-> "level", value |-> Num(7)]>>}

NextDevice ==
    \/ \E a \in DevCallers, id \in DOMAIN devices : CallGetStates(a, id)
    \/ \E a \in DevCallers, id \in DOMAIN devices, key \in StateKeys :
          CallGetState(a, id, key)
    \/ \E a \in DevCallers, id \in DOMAIN devices, key \in CommandKeys,
          params \in ParamLists : CallSendCommand(a, id, key, params)
    \/ \E a \in DevCallers, id \in DOMAIN devices, key \in CustomKeys,
          value \in SetValues : CallSetCustomState(a, id, key, value)
    \/ \E id \in DOMAIN devices : \E list \in ChangeLists(Reportable(id)) :
          BrainReports(id, list)
    \/ Deliver

SpecDevice == InitDevice /\ [][NextDevice]_vars

-----------------------------------------------------------------------------
(* Watching: the same client, with listeners that come and go, a caller    *)
(* that reads the states, a controller that reports the change of one state *)
(* of each device, and a socket that closes and is opened again by the      *)
(* reconnect timer                                                          *)

\* the states whose changes the controller reports here
Ticking == {"SECOND_STATE", "VOLUME"}

NextWatch ==
    \/ \E id \in DOMAIN devices, arity \in {0, 1} : ListenerOn(id, arity)
    \/ \E id \in DOMAIN devices, arity \in {0, 1} : ListenerOff(id, arity)
    \/ \E id \in DOMAIN devices : CallGetStates("a", id)
    \/ \E id \in DOMAIN devices : \E list \in ChangeLists(Reportable(id)) :
          Len(list) = 1 /\ list[1].id \in Ticking /\ BrainReports(id, list)
    \/ Deliver
    \/ WsClose
    \/ WsError
    \/ ReconnectTimer
    \/ WsOpen

SpecWatch == InitDevice /\ [][NextWatch]_vars

-----------------------------------------------------------------------------
(* State changes on the wire: any state id, known to the device or not, with *)
(* a state_value and a state_normalized_value that are any strings.          *)

\* the state_value and state_normalized_value of a record
WirePairs ==
    {[value |-> <<"o", "n">>, norm |-> <<"4", "2">>],
     [value |-> <<"4", "2">>, norm |-> <<"7", "x">>]}

\* the records a message may carry for device id, known to the client or not
WireRecords(id) ==
    {Change(sid, p.value, p.norm) :
        sid \in (IF id \in DOMAIN devices THEN DOMAIN devices[id].states ELSE {})
                 \cup {"NOPE"},
        p \in WirePairs}

\* the controller sends a state_change_message, one at a time
BrainSendsChanges(id, list) ==
    /\ ws = "open"
    /\ inbox = <<>>
    /\ Handle([World EXCEPT
          !.inbox = Append(@, [Frame("state_change_message")
                                 EXCEPT !.device = id, !.changes = list])])

NextApply ==
    \/ \E id \in DOMAIN devices \cup {"D9"} : \E list \in ChangeLists(WireRecords(id)) :
          BrainSendsChanges(id, list)
    \/ Deliver

SpecApply == InitDevice /\ [][NextApply]_vars

-----------------------------------------------------------------------------
(* What a handler did, read from out *)

\* the statuses of the CONNECTION_STATUS_CHANGED events emitted, in order
EmittedStatuses(o) ==
    LET evs == SelectSeq(o.emitted, LAMBDA e : e.event = "CONNECTION_STATUS_CHANGED")
    IN  [i \in 1..Len(evs) |-> evs[i].status]

\* the values assigned to _connectionStatus, in order
AssignedStatuses(o) == [i \in 1..Len(o.writes) |-> o.writes[i][2]]

\* the values assigned to _connectionStatus that differ from the value replaced
ChangedStatuses(o) ==
    LET ch == SelectSeq(o.writes, LAMBDA wr : wr[1] # wr[2])
    IN  [i \in 1..Len(ch) |-> ch[i][2]]

\* an event of this name was emitted
Emitted(name) == \E i \in 1..Len(out.emitted) : out.emitted[i].event = name

-----------------------------------------------------------------------------
(* The connection status *)

\* C1: the CONNECTION_STATUS_CHANGED events a handler emits are, one for one and
\* in order, the values it assigns to the connection status, each event carrying
\* the value assigned; so getConnectionStatus() is always the status of the
\* latest such event.
StatusChangeEmitsOnce ==
    /\ EmittedStatuses(out) = AssignedStatuses(out)
    /\ client.status = lastStatus

\* the close of the socket has changed the status twice, to DISCONNECTED and
\* then to RECONNECTING, with two events
StatusChangedTwice ==
    /\ AssignedStatuses(out) = <<CONNECTION_DISCONNECTED, CONNECTION_RECONNECTING>>
    /\ lastStatus = CONNECTION_RECONNECTING

\* C2: a handler that sets the connection status to the value it already has
\* emits no CONNECTION_STATUS_CHANGED event for it: the events emitted are those
\* of the assignments that change the value.
StatusCoalesced == EmittedStatuses(out) = ChangedStatuses(out)

\* a PIN submitted after the automatic attempt is rejected while the status is
\* UNAUTHORIZED already, and the status event is emitted again
StatusRepeated ==
    /\ out.handled.type = "unauthorized_message" /\ out.handled.state # "default"
    /\ out.writes = <<<<CONNECTION_UNAUTHORIZED, CONNECTION_UNAUTHORIZED>>>>
    /\ EmittedStatuses(out) = <<CONNECTION_UNAUTHORIZED>>

\* C3: when connectToBrain, called without a socket against a reachable,
\* provisioned controller in express mode that accepts the empty PIN, is over
\* with nothing but the handshake having happened, it has not failed: the
\* statuses of the CONNECTION_STATUS_CHANGED events were exactly CONNECTING,
\* AUTHORIZING, ACTIVE and it resolved with ACTIVE.
HappyPath ==
    \A k \in ConnCallers :
        (/\ app[k].pc \in {"done", "failed"}
         /\ quiet
         /\ brain.provisioned /\ brain.express /\ brain.pin = "")
        => /\ statusSeen = <<CONNECTION_CONNECTING, CONNECTION_AUTHORIZING,
                             CONNECTION_ACTIVE>>
           /\ app[k].pc = "done"
           /\ app[k].result = CONNECTION_ACTIVE

\* connectToBrain has resolved on the happy path
HappyPathDone ==
    /\ app["k1"].pc = "done" /\ app["k1"].result = CONNECTION_ACTIVE
    /\ quiet
    /\ brain.provisioned /\ brain.express /\ brain.pin = ""
    /\ out.handled.type = "authorized_message"

\* C4: in a handshake that connectToBrain started without a socket and that
\* nothing has disturbed, handling the unauthorized_message that answers the
\* automatic empty-PIN attempt emits PIN_REQUIRED, leaves the promise that
\* isLoginNeeded() awaits resolved with true, and the status UNAUTHORIZED;
\* handling an authorized_message emits AUTHORIZED, leaves the client
\* authenticated, the authorization promise resolved with no connectToBrain
\* call waiting for it, and the status ACTIVE.
PinFlow ==
    /\ (/\ quiet
        /\ out.handled.type = "unauthorized_message"
        /\ out.handled.state = "default")
          => /\ Emitted("PIN_REQUIRED")
             /\ client.loginNeededPromise = "true"
             /\ ~client.isAuthenticated
             /\ client.status = CONNECTION_UNAUTHORIZED
    /\ (quiet /\ out.handled.type = "authorized_message")
          => /\ Emitted("AUTHORIZED")
             /\ client.isAuthenticated
             /\ Settled(client.authPromise)
             /\ \A k \in ConnCallers : app[k].pc # "awaitAuth"
             /\ client.status = CONNECTION_ACTIVE

\* the empty PIN was rejected, and the PIN submitted later has been accepted
PinAccepted ==
    /\ quiet
    /\ out.handled.type = "authorized_message"
    /\ brain.pin = "1234"
    /\ client.loginNeededPromise = "true"
    /\ app["k1"].pc = "done" /\ app["k1"].result = CONNECTION_ACTIVE

-----------------------------------------------------------------------------
(* Calls on a device *)

\* the calls that are over in this step
Finished == {out.finished[i] : i \in 1..Len(out.finished)}

\* the state ids the command of a sendCommand call refers to
Referenced(c) == devices[c.dev].commands[c.key].states

StateReaders == {"getStates", "getState"}
StateWriters == {"sendCommand", "setCustomState"}

\* C5: a sendCommand that has resolved has seen, since it sent the command, an
\* update of every state id its command refers to, and its result maps exactly
\* those ids to the values the device holds.
SendCommandAwaitsReferenced ==
    \A c \in Finished :
        (c.op = "sendCommand" /\ c.pc = "done")
        => /\ Referenced(c) \subseteq c.fresh
           /\ DOMAIN c.result = Referenced(c)
           /\ \A sid \in Referenced(c) : c.result[sid] = devices[c.dev].states[sid].value

\* a sendCommand, the only call on the device, has resolved on an update of a
\* state its command does not refer to
SendCommandResolvedByOther ==
    /\ Len(out.finished) = 1
    /\ \A a \in DevCallers : calls[a].pc = "idle"
    /\ out.finished[1].op = "sendCommand" /\ out.finished[1].pc = "done"
    /\ out.finished[1].key = "SET_SYSTEM_USE" /\ out.finished[1].fresh = {}
    /\ out.handled.changes = <<Change("SECOND_STATE", <<"7">>, <<"7">>)>>

\* C6: a setCustomState(X, v) that has resolved returns X's record with value
\* and normalizedValue the string of v, and the device holds that value.
SetCustomStateReflectsValue ==
    \A c \in Finished :
        (c.op = "setCustomState" /\ c.pc = "done")
        => /\ c.result[c.key] = Str(Stringify(c.sent))
           /\ devices[c.dev].states[c.key].value = Str(Stringify(c.sent))
           /\ devices[c.dev].states[c.key].normalizedValue = Str(Stringify(c.sent))

\* a setCustomState, the only call on the device, has resolved on the tick of
\* SECOND_STATE, with the value the custom state had
SetCustomStateResolvedByTick ==
    /\ Len(out.finished) = 1
    /\ \A a \in DevCallers : calls[a].pc = "idle"
    /\ out.finished[1].op = "setCustomState" /\ out.finished[1].pc = "done"
    /\ out.finished[1].result["CUSTOM_1"] = Null
    /\ out.handled.changes = <<Change("SECOND_STATE", <<"7">>, <<"7">>)>>
    /\ [device |-> "D1", id |-> "CUSTOM_1", value |-> <<"4", "2">>] \in brain.pending

\* C7: setCustomState on the system device with the id or the name of a custom
\* state as key does not fail.
SetCustomStateAcceptsKey ==
    \A c \in Finished :
        (/\ c.op = "setCustomState"
         /\ devices[c.dev].isSystem
         /\ IsCustomState(devices[c.dev], LookupState(devices[c.dev], c.key)))
        => c.pc = "done"

\* setCustomState with the name of a custom state has failed
StringKeyRejected ==
    \E c \in Finished :
        /\ c.op = "setCustomState" /\ c.dev = "D1" /\ c.key = "My Custom State"
        /\ c.pc = "failed" /\ c.error = "ErrorInvalidState"

\* C8: a step in which setCustomState fails gives ErrorNotSystemDevice off the
\* system device and ErrorInvalidState on it, sends nothing and leaves every
\* device as it was.
SetCustomStateFailsCleanly ==
    [][\A i \in 1..Len(out'.finished) :
          LET c == out'.finished[i]
          IN  (c.op = "setCustomState" /\ c.pc = "failed")
              => /\ c.error = IF devices[c.dev].isSystem THEN "ErrorInvalidState"
                                ELSE "ErrorNotSystemDevice"
                 /\ out'.sent = <<>>
                 /\ devices' = devices]_vars

\* setCustomState with a string that names no state has failed, and has left
\* a waiter nobody awaits and a watch requested from the controller
FailureLeftWaiter ==
    /\ \E c \in Finished :
          /\ c.op = "setCustomState" /\ c.dev = "D1" /\ c.key = "NOPE"
          /\ c.pc = "failed" /\ c.error = "ErrorInvalidState"
    /\ \A a \in DevCallers : calls[a].pc = "idle"
    /\ devices["D1"].statePromise = "pending" /\ devices["D1"].watchRequested
    /\ \E i \in 1..Len(out.sent) : out.sent[i].type = "watch_states_message"

\* C10: a getStates/getState call that starts to wait has asked for the
\* watch of its device, and does so only on a device that no change was
\* applied to yet or while a sendCommand/setCustomState waits on it; a waiting
\* one is over only in the handling of a state_change_message of its device;
\* one that is over at once was made on a device a change had been applied to.
GetStatesWaitsOnce ==
    [][/\ \A a \in DevCallers :
            LET c == calls'[a]
            IN  /\ (calls[a].pc = "idle" /\ c.pc = "waiting" /\ c.op \in StateReaders)
                      => /\ devices'[c.dev].watchRequested
                         /\ devices[c.dev].watchRequested
                               \/ \E i \in 1..Len(out'.sent) :
                                     /\ out'.sent[i].type = "watch_states_message"
                                     /\ out'.sent[i].device = c.dev
                         /\ ~devices[c.dev].applied
                               \/ \E b \in DevCallers :
                                     /\ calls[b].pc = "waiting"
                                     /\ calls[b].dev = c.dev
                                     /\ calls[b].op \in StateWriters
                /\ (/\ calls[a].pc = "waiting" /\ calls[a].op \in StateReaders
                     /\ c.pc = "idle")
                      => /\ out'.handled.type = "state_change_message"
                         /\ out'.handled.device = calls[a].dev
                         /\ devices'[calls[a].dev].applied
       /\ \A i \in 1..Len(out'.finished) :
            LET c == out'.finished[i]
            IN  (c.op \in StateReaders /\ c.pc = "done" /\ out'.handled.type = "")
                  => devices[c.dev].applied]_vars

\* a getStates call is over at once: changes had been applied to the device
GetStatesAtOnce ==
    /\ \E c \in Finished : c.op = "getStates" /\ c.pc = "done"
    /\ out.handled.type = ""

-----------------------------------------------------------------------------
(* State changes applied *)

\* the last record of the list for state id sid
LastOf(list, sid) ==
    list[CHOOSE i \in 1..Len(list) :
            list[i].id = sid /\ \A j \in (i + 1)..Len(list) : list[j].id # sid]

\* a decimal numeral: digits only, no leading zero
IsNumeral(s) == s # <<>> /\ DigitPrefix(s) = Len(s) /\ (Len(s) > 1 => s[1] # "0")

\* the STATE_CHANGED events emitted, in order
StateChangedEvents == SelectSeq(out.emitted, LAMBDA e : e.event = "STATE_CHANGED")

\* C9: after a state_change_message for a device of the map is handled, every
\* state of the device the message names has the state_value of its (last)
\* record as value, and as normalizedValue the normalized value delivered: as
\* it is for a state whose type is not "number", and for a "number" state a
\* number, the one the string denotes when it is a decimal numeral; and the
\* STATE_CHANGED events emitted are those of the records, one each, in order.
StateChangeApplied ==
    (out.handled.type = "state_change_message" /\ out.handled.device \in DOMAIN devices)
    => LET list == out.handled.changes
           dev == devices[out.handled.device]
       IN  /\ \A sid \in DOMAIN dev.states :
                 (\E i \in 1..Len(list) : list[i].id = sid)
                 => LET ch == LastOf(list, sid)
                        nv == dev.states[sid].normalizedValue
                    IN  /\ dev.states[sid].value = Str(ch.value)
                        /\ dev.states[sid].type # "number" => nv = Str(ch.norm)
                        /\ dev.states[sid].type = "number"
                              => /\ nv.t \in {"number", "NaN"}
                                 /\ IsNumeral(ch.norm)
                                       => nv.t = "number" /\ NatToDigits(nv.n) = ch.norm
           /\ StateChangedEvents =
                 [i \in 1..Len(list) |->
                     [Event("STATE_CHANGED") EXCEPT !.on = out.handled.device,
                                                    !.id = list[i].id,
                                                    !.value = list[i].value,
                                                    !.norm = list[i].norm]]

\* a message of two records has set a number state from the numeral "42" and
\* named a state the device does not know
NumberStateChanged ==
    /\ out.handled.type = "state_change_message" /\ out.handled.device = "D1"
    /\ Len(out.handled.changes) = 2
    /\ out.handled.changes[1] = Change("SECOND_STATE", <<"o", "n">>, <<"4", "2">>)
    /\ out.handled.changes[2].id = "NOPE"
    /\ devices["D1"].states["SECOND_STATE"].normalizedValue = Num(42)
    /\ devices["D1"].states["SECOND_STATE"].value = Str(<<"o", "n">>)

-----------------------------------------------------------------------------
(* Watching *)

\* the positions in the watchStates calls of a step that ask for the watch
\* (watch = TRUE) or the unwatch (watch = FALSE) of device id
Asks(o, id, watch) ==
    {i \in 1..Len(o.asked) : o.asked[i].device = id /\ o.asked[i].watch = watch}

\* the step is the first ACTIVE status after a reconnect
Reconnected == client.isReconnecting /\ ~client'.isReconnecting
                  /\ client'.status = CONNECTION_ACTIVE

\* C11: in a step a device asks for its watch at most once, and only when its
\* subscription flag was down, or it has just asked for the unwatch, or the
\* step is the one in which the client is ACTIVE again after a reconnect; and
\* the flag of a device goes down only as the device asks for the unwatch.
WatchAskedOnce ==
    [][\A id \in DOMAIN devices' :
          /\ Cardinality(Asks(out', id, TRUE)) <= 1
          /\ \A i \in Asks(out', id, TRUE) :
                \/ id \notin DOMAIN devices
                \/ ~devices[id].watchRequested
                \/ \E j \in Asks(out', id, FALSE) : j < i
                \/ Reconnected
          /\ (/\ id \in DOMAIN devices /\ devices[id].watchRequested
               /\ ~devices'[id].watchRequested)
                => Asks(out', id, FALSE) # {}]_vars

\* a device with two listeners and a getStates call waiting on it is watched
\* by the controller, and the step has asked for nothing
WatchedOnceForMany ==
    /\ Len(devices["D2"].listeners) = 2
    /\ calls["a"].pc = "waiting" /\ calls["a"].dev = "D2"
    /\ "D2" \in brain.watching
    /\ out.asked = <<>>

-----------------------------------------------------------------------------
(* Enumeration of the devices: GET devices, then for each device of the     *)
(* answer, one after the other, GET its driver and create or update the     *)
(* BrainDevice.  http.devices counts the GET devices in flight, http.driver *)
(* is the device whose driver is being fetched.                             *)

IndexOf(id) == CHOOSE i \in 1..Len(DeviceOrder) : DeviceOrder[i] = id

\* this.devices[device.id]._updateData(device) or new BrainDevice(this, device),
\* in the map that is this.devices now
CreateOrUpdate(w, id) ==
    LET data == EnumeratedDevices[id]
    IN  [w EXCEPT !.d = [x \in DOMAIN w.d \cup {id} |->
            IF x # id THEN w.d[x]
            ELSE IF id \in DOMAIN w.d
            THEN [w.d[id] EXCEPT !.name = data.name, !.isSystem = data.isSystem,
                                 !.states = data.states, !.commands = data.commands]
            ELSE data]]

\* the same with device.driver = null: _enumCustomStates() runs, _enumDriver()
\* empties the commands and throws on Object.values(null); a new device is
\* not stored
UpdateThrows(w, id) ==
    IF id \notin DOMAIN w.d THEN w
    ELSE LET data == EnumeratedDevices[id]
             custom == {sid \in DOMAIN data.states :
                           data.isSystem /\ data.states[sid].custom}
         IN  [w EXCEPT !.d[id].name = data.name, !.d[id].isSystem = data.isSystem,
                       !.d[id].states = [sid \in custom |-> data.states[sid]],
                       !.d[id].commands = [cid \in {} |-> Command("", {})]]

\* the handlers of system_state_message suspended in _enumDevices() go on
RECURSIVE ActivatingFrom(_, _)
ActivatingFrom(w, n) ==
    IF n = 0 THEN w ELSE ActivatingFrom(ActivatingContinues(w), n - 1)

\* _enumPromise.resolve(this.devices); _enumPromise = null: every caller
\* awaiting the enumeration goes on
EnumResolved(w) ==
    LET w1 == [w EXCEPT !.c.enumPromise = "none", !.c.enumFirst = "none",
                        !.c.enumOf = "none", !.c.activating = 0]
        w2 == ActivatingFrom(w1, w.c.activating)
    IN  [w2 EXCEPT !.calls = [a \in DOMAIN w2.calls |->
            IF w2.calls[a].pc = "enum" THEN [w2.calls[a] EXCEPT !.pc = "ready"]
            ELSE w2.calls[a]]]

\* promiseMap from device i on, over the devices of the answer: those the
\* controller lists
RECURSIVE EnumFrom(_, _)
EnumFrom(w, i) ==
    IF i > Len(DeviceOrder) THEN EnumResolved(w)
    ELSE IF DeviceOrder[i] \in w.brain.listed
    THEN [w EXCEPT !.http.driver = DeviceOrder[i]]
    ELSE EnumFrom(w, i + 1)

RECURSIVE FailEnumFrom(_, _)
FailEnumFrom(w, i) ==
    IF i > Len(CallOrder) THEN w
    ELSE FailEnumFrom(IF w.calls[CallOrder[i]].pc = "enum"
                      THEN FailCall(w, CallOrder[i], "Error enumerating devices")
                      ELSE w, i + 1)

\* _enumPromise.reject(res); throw: every caller awaiting the enumeration
\* fails, and _enumPromise stays as it is
EnumRejected(w) ==
    FailEnumFrom([w EXCEPT !.c.enumPromise = "rejected", !.c.enumFirst = "none",
                           !.c.activating = 0], 1)

\* promiseMap rejects: the caller running _enumDevices() fails, _enumPromise
\* is neither settled nor reset
EnumThrows(w) ==
    LET first == w.c.enumFirst
        w1 == [w EXCEPT !.c.enumFirst = "none"]
    IN  IF first = "sync" THEN [w1 EXCEPT !.c.activating = @ - 1]
        ELSE IF first \in DevCallers THEN FailCall(w1, first, "TypeError")
        ELSE w1

\* the application calls getDevices() on a client that has an address and
\* whose _connectionPromise is not pending
CallGetDevices(a) ==
    /\ Free(a)
    /\ client.ipSet
    /\ client.isConnected \/ client.connectionPromise # "pending"
    /\ Handle(GetDevices(World, a))

\* the answer to GET devices: the list of the devices, or no success
HttpDevicesResponds(res) ==
    /\ http.devices > 0
    /\ LET w == [World EXCEPT !.http.devices = @ - 1, !.out.answer = res]
       IN  Handle(IF res = "ok" THEN EnumFrom(w, 1) ELSE EnumRejected(w))

\* the answer to GET device-drivers/<id>: the driver, or no success, which
\* _getSimpleDriver turns into null
HttpDriverResponds(res) ==
    /\ http.driver # "none"
    /\ LET id == http.driver
           w == [World EXCEPT !.http.driver = "none", !.out.answer = res]
       IN  Handle(IF res = "ok" THEN EnumFrom(CreateOrUpdate(w, id), IndexOf(id) + 1)
                  ELSE EnumThrows(UpdateThrows(w, id)))

\* a connected client that has not enumerated its devices
InitEnum ==
    /\ client = [ActiveClient EXCEPT !.devicesEnumerated = FALSE]
    /\ devices = NoDevices
    /\ ws = "open"
    /\ inbox = <<>>
    /\ brain = Brain("", TRUE, TRUE)
    /\ app = [k \in ConnCallers |->
                [NoConnect EXCEPT !.pc = "done", !.result = CONNECTION_ACTIVE]]
    /\ calls = [a \in DevCallers |-> NoCall]
    /\ http = NoHttp
    /\ out = NoOut
    /\ lastStatus = CONNECTION_ACTIVE
    /\ statusSeen = <<CONNECTION_CONNECTING, CONNECTION_AUTHORIZING, CONNECTION_ACTIVE>>
    /\ quiet = TRUE
    /\ registry = NoRegistry
    /\ request = NoRequest

NextEnum ==
    \/ \E a \in DevCallers : CallGetDevices(a)
    \/ \E res \in {"ok", "error"} : HttpDevicesResponds(res)
    \/ \E res \in {"ok", "error"} : HttpDriverResponds(res)
    \/ Disconnect
    \/ client.manuallyDisconnected /\ ConnectToBrain("k1", "")
    \/ HttpGeneralResponds("k1", "ok")
    \/ WsOpen \/ Deliver \/ WsClose
    \/ \E state \in {"brain_sync", "active_online"} :
          /\ inbox = <<>> /\ client.devicesEnumerated /\ client.activating = 0
          /\ BrainSendsSys(state)

SpecEnum == InitEnum /\ [][NextEnum]_vars

-----------------------------------------------------------------------------
(* Automatic reconnect.  The session of a connected client is lost by a     *)
(* close or an error of its socket; from then on the controller is          *)
(* reachable: the socket that was closed reports its close, the timer       *)
(* fires, the new socket opens and its frames are delivered.                *)

ChannelCloses == client.status = CONNECTION_ACTIVE /\ ws = "open" /\ WsClose

ChannelErrors == client.status = CONNECTION_ACTIVE /\ ws = "open" /\ WsError

CloseCompletes == ws = "closing" /\ WsClose

NextReconnect ==
    \/ \E id \in DOMAIN devices, arity \in {0, 1} : ListenerOn(id, arity)
    \/ \E id \in DOMAIN devices, arity \in {0, 1} : ListenerOff(id, arity)
    \/ ChannelCloses \/ ChannelErrors \/ CloseCompletes
    \/ ReconnectTimer \/ WsOpen \/ Deliver

\* weak fairness of the four steps that are not the application's, each
\* written with the condition under which the step can be taken
SpecReconnect ==
    /\ InitDevice /\ [][NextReconnect]_vars
    /\ []<>(ws # "closing") \/ []<><<CloseCompletes>>_vars
    /\ []<>(~client.reconnectTid) \/ []<><<ReconnectTimer>>_vars
    /\ []<>(ws # "connecting") \/ []<><<WsOpen>>_vars
    /\ []<>(ws \notin {"open", "closing"} \/ inbox = <<>>) \/ []<><<Deliver>>_vars

\* C17: when the socket of an active session closes or errors, the status
\* becomes RECONNECTING, and a client that is reconnecting becomes ACTIVE
\* again.
ReconnectRestoresSession ==
    /\ [][(ws = "open" /\ ws' # "open") => /\ client'.isReconnecting
                                           /\ client'.status = CONNECTION_RECONNECTING]_vars
    /\ client.isReconnecting
          ~> (client.status = CONNECTION_ACTIVE /\ ~client.isReconnecting)

\* the status is ACTIVE again after a reconnect, with no listener attached by
\* the application
SessionRestored ==
    /\ client.status = CONNECTION_ACTIVE /\ ~client.isReconnecting /\ ws = "open"
    /\ out.handled.type = "authorized_message"
    /\ lastStatus = CONNECTION_ACTIVE
    /\ \A id \in DOMAIN devices : devices[id].listeners = <<>>

\* the watch messages for device id put on the wire in this step
Rewatches(o, id) ==
    {i \in 1..Len(o.sent) : /\ o.sent[i].type = "watch_states_message"
                            /\ o.sent[i].device = id /\ o.sent[i].watch}

Got(o) == {o.finished[i] : i \in {j \in 1..Len(o.finished) :
                                    o.finished[j].op = "getDevices"}}

\* C19: at most one GET devices is in flight, and in the step that resolves
\* the enumeration every caller awaiting it is done with one map, the
\* client's.
EnumSingleFlight ==
    /\ [](http.devices <= 1)
    /\ [][(client.enumPromise = "pending" /\ client'.enumPromise = "none")
             => \A a \in DevCallers :
                   calls[a].pc = "enum"
                   => \E c \in Got(out') : /\ c.who = a /\ c.pc = "done"
                                            /\ DOMAIN c.result = DOMAIN devices']_vars

\* two callers shared one enumeration and got both devices
SharedEnumeration ==
    /\ Cardinality(Got(out)) = 2
    /\ \A c \in Got(out) : c.pc = "done" /\ DOMAIN c.result = {"D1", "D2"}
    /\ http = NoHttp /\ client.enumPromise = "none"

\* C20: when a driver GET is answered, with the driver or not, its device is
\* in the map, no getDevices() fails, and the enumeration goes on to the
\* next device or resolves.
DriverFailureIsPerDevice ==
    [][(http.driver # "none" /\ http'.driver # http.driver)
         => /\ http.driver \in DOMAIN devices'
            /\ \A c \in Got(out') : c.pc = "done"
            /\ http'.driver = "none" => client'.enumPromise = "none"]_vars

\* a driver GET failed: the caller that ran the enumeration has failed, the
\* other one waits for an enumeration that no request will end
EnumerationStuck ==
    /\ \E c \in Got(out) : c.pc = "failed" /\ c.error = "TypeError"
    /\ \E a \in DevCallers : calls[a].pc = "enum"
    /\ client.enumPromise = "pending" /\ http = NoHttp
    /\ client.isConnected /\ ~client.manuallyDisconnected

\* C14: on a connected client, a getDevices() that finds an enumeration made
\* before the last connectToBrain issues a GET devices of its own.
EnumerationRunsAgain ==
    [][\A a \in DevCallers :
          (/\ calls[a].pc = "idle"
           /\ calls'[a].op = "getDevices" \/ \E c \in Got(out') : c.who = a
           /\ client.isConnected /\ ~client.devicesEnumerated
           /\ client.enumOf = "previous")
          => http'.devices = http.devices + 1]_vars

\* after disconnect() and connectToBrain, getDevices() has failed at once with
\* the rejection of the enumeration of the connection before
StaleOutcomeReused ==
    /\ \E c \in Got(out) : c.pc = "failed" /\ c.error = "rejected"
    /\ client.enumOf = "previous" /\ client.enumPromise = "rejected"
    /\ client.isConnected /\ client.status = CONNECTION_ACTIVE
    /\ http = NoHttp

-----------------------------------------------------------------------------
(* disconnect() *)

\* disconnect() was called, and since then no socket has opened and no
\* connectToBrain has got its answer from the controller or is waiting for it
Disconnected ==
    /\ client.manuallyDisconnected
    /\ \A k \in ConnCallers : app[k].pc # "bootstrap"

\* C13: after disconnect() and before connectToBrain the device map is empty
\* and no STATE_CHANGED is emitted.
DevicesStayEmpty ==
    [](Disconnected
         => /\ devices = NoDevices
            /\ \A i \in 1..Len(out.emitted) : out.emitted[i].event # "STATE_CHANGED")

\* disconnect() was called during an enumeration, whose next driver answer
\* put a device into the new map
DeviceAfterDisconnect ==
    /\ Disconnected /\ ws = "closed"
    /\ DOMAIN devices = {"D2"}
    /\ client.enumPromise = "none"

\* C15: after disconnect() the device map is empty, and once the channel is
\* closed the status is DISCONNECTED, and then does not change before
\* connectToBrain is called.
DisconnectIsTerminal ==
    /\ [](Disconnected => devices = NoDevices)
    /\ []((Disconnected /\ ws \in {"none", "closed"})
             => client.status = CONNECTION_DISCONNECTED)
    /\ [][(Disconnected /\ client.status = CONNECTION_DISCONNECTED)
             => \/ client'.status = CONNECTION_DISCONNECTED
                \/ \E k \in ConnCallers : app'[k].pc = "bootstrap"]_vars

\* disconnect() was called after the connection had failed, without a
\* socket: the status is still FAILURE
DisconnectedInFailure ==
    /\ Disconnected /\ ws = "none"
    /\ client.status = CONNECTION_FAILURE

\* C16: after disconnect() the client is not reconnecting, and no socket is
\* opened before the caller connects again.
NoReconnectAfterDisconnect ==
    /\ [](Disconnected => ~client.isReconnecting)
    /\ [][Disconnected => ~(ws # "connecting" /\ ws' = "connecting")]_vars

\* the reconnect timer that was pending when disconnect() was called has
\* fired and opened a socket
ReconnectedAfterDisconnect ==
    /\ Disconnected /\ ws = "connecting"
    /\ client.isReconnecting /\ ~client.reconnectTid

-----------------------------------------------------------------------------
(* The status and the state of the session *)

\* C23: when the status is ACTIVE the socket is connected and the controller
\* has authorized it.
ActiveImpliesAuthorized ==
    client.status = CONNECTION_ACTIVE
    => client.isConnected /\ client.isAuthenticated

\* disconnect() on an active session: the socket is closing, the status is
\* still ACTIVE
ActiveWhileClosing ==
    /\ client.status = CONNECTION_ACTIVE /\ client.manuallyDisconnected
    /\ ws = "closing" /\ ~client.isConnected /\ ~client.isAuthenticated

SubmitPinAuthorizes ==
    [][(/\ client.status = CONNECTION_UNAUTHORIZED
        /\ \E i \in 1..Len(out'.sent) : out'.sent[i].type = "passcode_auth_msg")
         => client'.status = CONNECTION_AUTHORIZING]_vars

\* the application has called submitPin: the PIN is on the wire, the status
\* is UNAUTHORIZED as before
PinSentStillUnauthorized ==
    /\ client.status = CONNECTION_UNAUTHORIZED
    /\ out.handled = Frame("") /\ out.writes = <<>>
    /\ Len(out.sent) = 1 /\ out.sent[1].type = "passcode_auth_msg"

\* C29: when the socket of an active session closes without disconnect(), the
\* only status emitted is RECONNECTING, and the reconnect timer is set.
CloseGoesToReconnecting ==
    [][(/\ client.status = CONNECTION_ACTIVE /\ ~client.manuallyDisconnected
        /\ ws = "open" /\ ws' = "closed")
         => /\ EmittedStatuses(out') = <<CONNECTION_RECONNECTING>>
            /\ client'.status = CONNECTION_RECONNECTING
            /\ client'.reconnectTid]_vars

\* the socket of an active session has closed: DISCONNECTED was emitted
\* before RECONNECTING
ClosedThroughDisconnected ==
    /\ out.writes = << <<CONNECTION_ACTIVE, CONNECTION_DISCONNECTED>>,
                       <<CONNECTION_DISCONNECTED, CONNECTION_RECONNECTING>> >>
    /\ EmittedStatuses(out) = <<CONNECTION_DISCONNECTED, CONNECTION_RECONNECTING>>
    /\ ws = "closed" /\ client.reconnectTid

\* C30: when the reconnect timer fires in RECONNECTING, the status becomes
\* CONNECTING and a socket is being opened.
TimerOpensChannel ==
    [][(/\ client.status = CONNECTION_RECONNECTING
        /\ client.reconnectTid /\ ~client'.reconnectTid)
         => client'.status = CONNECTION_CONNECTING /\ ws' = "connecting"]_vars

\* the timer has fired and a socket is being opened: the status is
\* RECONNECTING as before
TimerLeftReconnecting ==
    /\ client.status = CONNECTION_RECONNECTING /\ client.isReconnecting
    /\ ~client.reconnectTid /\ ws = "connecting"
    /\ ~client.manuallyDisconnected /\ out = [NoOut EXCEPT !.made = TRUE]

-----------------------------------------------------------------------------
(* ConnectionWatchdog: the deadman timer.  client.deadmanTimer tells that a  *)
(* timer set by restartDeadmanTimer() is pending; http.restart counts the    *)
(* POST restart requests made.                                               *)

MaxRestarts == 2

\* the deadman timer fires: http.post('restart'), and the timer is set again
DeadmanExpires ==
    /\ client.deadmanTimer
    /\ http.restart < MaxRestarts
    /\ Handle([World EXCEPT !.http.restart = @ + 1, !.c.deadmanTimer = TRUE])

NextWatchdog ==
    \/ \E id \in DOMAIN devices : ListenerOn(id, 1)
    \/ \E id \in DOMAIN devices : ListenerOff(id, 1)
    \/ \E id \in DOMAIN devices \cap {"D1"} : \E list \in ChangeLists(Reportable(id)) :
          Len(list) = 1 /\ list[1].id \in Ticking /\ BrainReports(id, list)
    \/ Deliver \/ WsClose \/ Disconnect
    \/ DeadmanExpires

SpecWatchdog == InitDevice /\ [][NextWatchdog]_vars

\* a device holds a subscription
Subscribed == \E id \in DOMAIN devices : devices[id].watchRequested

\* C21: POST restart is made only while a device is subscribed and
\* disconnect() was not called, and the deadline is armed as soon as a device
\* is subscribed and the watchdog listens to the system device.
RestartOnlyWhenSubscribed ==
    /\ [][http'.restart # http.restart
            => Subscribed /\ ~client.manuallyDisconnected]_vars
    /\ []((Subscribed /\ client.watchdog = "on") => client.deadmanTimer)

\* the display is subscribed at the controller and the watchdog listens to
\* the system device, and no deadman timer is pending
SubscribedUnarmed ==
    /\ devices["D2"].watchRequested /\ "D2" \in brain.watching
    /\ client.watchdog = "on" /\ devices["D1"].wdListener
    /\ ~client.deadmanTimer /\ http.restart = 0

-----------------------------------------------------------------------------
(* Synchronization of the controller, on a client with its devices          *)
(* enumerated and listeners on them                                         *)

NextResync ==
    \/ \E id \in DOMAIN devices : ListenerOn(id, 1)
    \/ \E state \in {"brain_sync", "active_online"} :
          /\ inbox = <<>> /\ client.activating = 0
          /\ BrainSendsSys(state)
    \/ \E id \in DOMAIN devices : \E list \in ChangeLists(Reportable(id)) :
          Len(list) = 1 /\ list[1].id \in Ticking /\ BrainReports(id, list)
    \/ Deliver
    \/ \E res \in {"ok", "error"} : HttpDevicesResponds(res)
    \/ \E res \in {"ok", "error"} : HttpDriverResponds(res)

SpecResync == InitDevice /\ [][NextResync]_vars

\* the frame handled in this step is a system state of this class
Reported(o, class) ==
    o.handled.type = "system_state_message" /\ o.handled.state \in class

\* a sync state makes the status SYNCHRONIZING; an active state after it
\* makes the status ACTIVE, at once without devices enumerated, and else when
\* the enumeration it starts or joins resolves; a driver that arrives for a
\* device of the map renews its states and commands in the same device.
SyncStep ==
       /\ Reported(out', SyncStates)
            => client'.status = CONNECTION_SYNCHRONIZING /\ client'.syncFlag
       /\ (Reported(out', ActiveStates) /\ client.syncFlag)
            => /\ ~client'.syncFlag
               /\ IF client.devicesEnumerated
                  THEN /\ client'.status = client.status
                       /\ client'.enumPromise = "pending"
                       /\ client'.activating = client.activating + 1
                       /\ http'.devices + http.devices = 1 \/ http'.driver # "none"
                  ELSE client'.status = CONNECTION_ACTIVE
       /\ (client.activating > 0 /\ client'.enumPromise = "none")
            => /\ client'.status = CONNECTION_ACTIVE /\ client'.activating = 0
               /\ DOMAIN devices' = DOMAIN EnumeratedDevices
       /\ (http.driver \in DOMAIN devices /\ out'.answer = "ok")
            => devices'[http.driver] =
                  [devices[http.driver] EXCEPT
                      !.name = EnumeratedDevices[http.driver].name,
                      !.isSystem = EnumeratedDevices[http.driver].isSystem,
                      !.states = EnumeratedDevices[http.driver].states,
                      !.commands = EnumeratedDevices[http.driver].commands]

\* C22: every step of a synchronization is as SyncStep says: SYNCHRONIZING at
\* a sync state, and at the active state after it a new enumeration, the same
\* devices renewed, and then ACTIVE.
SyncTransition == [][SyncStep]_vars

\* the active state after a synchronization has been handled, no enumeration
\* runs and the status is SYNCHRONIZING still
ActiveLeftSynchronizing ==
    /\ Reported(out, ActiveStates) /\ ~client.syncFlag
    /\ client.devicesEnumerated /\ client.enumPromise = "rejected"
    /\ http = NoHttp /\ client.activating = 0
    /\ client.status = CONNECTION_SYNCHRONIZING

-----------------------------------------------------------------------------
(* The registry of clients: BrainClient.getBrainClient and the cache that   *)
(* _connectSocket fills.  An address is the sequence of the parts of its    *)
(* string; a client is its index in registry.clients.                       *)

DEFAULT_BRAIN_PORT == 8000

MaxClients == 2

\* the addresses an application names
Addresses ==
    {<<"host">>, <<"host", ":", "8000">>, <<"other", ":", "8000">>}

\* window.location.host
LocationHost == <<"other", ":", "8000">>

\* the first argument of getBrainClient: an address, or a descriptor
\* { auto: true, default: ip }
Arguments ==
    [auto : {FALSE}, ip : Addresses] \cup [auto : {TRUE}, ip : {<<>>, <<"host">>}]

\* ipAddress.indexOf(':') < 0
HasNoColon(ipAddress) == \A i \in 1..Len(ipAddress) : ipAddress[i] # ":"

CheckPort(ipAddress) ==
    IF HasNoColon(ipAddress)
    THEN ipAddress \o <<":", ToString(DEFAULT_BRAIN_PORT)>>
    ELSE ipAddress

\* query is getUrlParameter('brainIp'), the empty string without one
TryAutoIpAddress(arg, query) ==
    IF arg.auto
    THEN IF query = <<>>
         THEN IF arg.ip # <<>> THEN arg.ip ELSE LocationHost
         ELSE query
    ELSE arg.ip

\* new BrainClient(opts); tick is the address of the connectToBrain that
\* getBrainClient has set a timeout for, ip the argument of its latest
\* connectToBrain
NewClient(by, tick) ==
    [by |-> by, tick |-> tick, ip |-> <<>>, ipAddress |-> <<>>,
     pc |-> "idle", ws |-> FALSE]

\* the function f with f[k] = v
Put(f, k, v) == [x \in DOMAIN f \cup {k} |-> IF x = k THEN v ELSE f[x]]

GetBrainClient(arg) ==
    LET ipAddress == TryAutoIpAddress(arg, registry.query)
        cached == ipAddress \in DOMAIN registry.cache
        bc == IF cached THEN registry.cache[ipAddress]
              ELSE Len(registry.clients) + 1
    IN  /\ cached \/ Len(registry.clients) < MaxClients
        /\ Commit([World EXCEPT
              !.registry.cache = IF cached THEN @ ELSE Put(@, ipAddress, bc),
              !.registry.clients =
                  IF cached THEN @ ELSE Append(@, NewClient("getBrainClient", ipAddress)),
              !.registry.got = [ipAddress |-> ipAddress, bc |-> bc],
              !.registry.returned = Put(@, ipAddress, bc)])

Construct ==
    /\ Len(registry.clients) < MaxClients
    /\ Commit([World EXCEPT
          !.registry.clients = Append(@, NewClient("new", <<>>)),
          !.registry.got = NoRegistry.got])

\* bc.connectToBrain(ip) up to the REST request of prepareConnection
ConnectClient(bc, ip) ==
    /\ registry.clients[bc].pc = "idle"
    /\ Commit([World EXCEPT
          !.registry.clients[bc] =
              [@ EXCEPT !.tick = <<>>, !.ip = ip, !.ipAddress = CheckPort(ip),
                        !.pc = "bootstrap"],
          !.registry.got = NoRegistry.got])

\* the timeout of getBrainClient
Tick(bc) ==
    /\ registry.clients[bc].tick # <<>>
    /\ ConnectClient(bc, registry.clients[bc].tick)

\* the application's own connectToBrain
Connects(bc, ip) ==
    /\ registry.clients[bc].tick = <<>>
    /\ ConnectClient(bc, ip)

\* the REST request is answered: prepareConnection fails, or goes on to
\* _connectSocket, which makes the socket and caches the client
Bootstrapped(bc, ok) ==
    LET me == registry.clients[bc]
        store == ok /\ ~me.ws /\ me.ipAddress \notin DOMAIN registry.cache
    IN  /\ me.pc = "bootstrap"
        /\ Commit([World EXCEPT
              !.registry.clients[bc] = [@ EXCEPT !.pc = "idle", !.ws = @ \/ ok],
              !.registry.cache = IF store THEN Put(@, me.ipAddress, bc) ELSE @,
              !.registry.got = NoRegistry.got])

\* bc.disconnect(): the socket is closed, the cache is left as it is
Disconnects(bc) ==
    /\ registry.clients[bc].ws
    /\ Commit([World EXCEPT !.registry.clients[bc].ws = FALSE,
                            !.registry.got = NoRegistry.got])

InitRegistry ==
    /\ client = FreshClient
    /\ devices = NoDevices
    /\ ws = "none"
    /\ inbox = <<>>
    /\ brain = Brain("", TRUE, TRUE)
    /\ app = [k \in ConnCallers |-> NoConnect]
    /\ calls = [a \in DevCallers |-> NoCall]
    /\ http = NoHttp
    /\ out = NoOut
    /\ lastStatus = NoStatus
    /\ statusSeen = <<>>
    /\ quiet = TRUE
    /\ \E query \in {<<>>, <<"host">>} :
          registry = [NoRegistry EXCEPT !.query = query]
    /\ request = NoRequest

NextRegistry ==
    \/ \E arg \in Arguments : GetBrainClient(arg)
    \/ Construct
    \/ \E bc \in 1..Len(registry.clients) : Tick(bc)
    \/ \E bc \in 1..Len(registry.clients), ip \in Addresses : Connects(bc, ip)
    \/ \E bc \in 1..Len(registry.clients), ok \in BOOLEAN : Bootstrapped(bc, ok)
    \/ \E bc \in 1..Len(registry.clients) : Disconnects(bc)

SpecRegistry == InitRegistry /\ [][NextRegistry]_vars

\* C25: getBrainClient returns for an address the client it returned for it
\* before, returns different clients for different addresses, and no entry of
\* the cache is removed or replaced.
RegistryIsOneToOne ==
    /\ [][/\ \A k \in DOMAIN registry.returned :
                registry'.returned[k] = registry.returned[k]
          /\ \A k \in DOMAIN registry.cache :
                k \in DOMAIN registry'.cache
                /\ registry'.cache[k] = registry.cache[k]]_vars
    /\ [](\A k, l \in DOMAIN registry.returned :
             k # l => registry.returned[k] # registry.returned[l])

\* getBrainClient has returned one client for "host" and for "host:8000"
OneClientTwoAddresses ==
    /\ registry.got.ipAddress = <<"host", ":", "8000">>
    /\ <<"host">> \in DOMAIN registry.returned
    /\ registry.returned[<<"host">>] = registry.got.bc
    /\ registry.clients[registry.got.bc].by = "getBrainClient"

\* C26: a client made with new BrainClient() whose connectToBrain(ip) has
\* connected its socket is the one getBrainClient(ip) returns afterwards.
ConnectionsAreCached ==
    [][\A bc \in 1..Len(registry.clients) :
          (/\ registry.clients[bc].by = "new" /\ registry.clients[bc].ws
           /\ registry'.got.bc # 0
           /\ registry'.got.ipAddress = registry.clients[bc].ip)
          => registry'.got.bc = bc]_vars

\* the client was made with new and has connected to "host"; getBrainClient
\* of "host" has returned another client
ConnectedButNotReturned ==
    /\ Len(registry.clients) >= 2
    /\ registry.clients[1].by = "new" /\ registry.clients[1].ws
    /\ registry.clients[1].ip = <<"host">>
    /\ registry.got = [ipAddress |-> <<"host">>, bc |-> 2]

-----------------------------------------------------------------------------
(* HttpClient.call: the attempts of one request under async-retry           *)

\* retries of autoRetry: true
DefaultRetries == 10

\* the largest number of retries an application gives in autoRetry.retries
MaxRetries == 2

\* the answers of the first MaxAnswers attempts are kept in request.answers
MaxAnswers == 3

\* options.autoRetry: undefined, true (retries 0: none given) or { retries }
AutoRetries ==
    [on : {FALSE}, retries : {0}] \cup [on : {TRUE}, retries : 0..MaxRetries]

\* what an attempt gets from fetchWithTimeout: a response with its status and
\* whether its body is JSON, or (status 0) a rejection: no connection, or the
\* timeout without AbortController
Responses ==
    [status : {200, 403, 404, 502}, json : BOOLEAN]
        \cup {[status |-> 0, json |-> FALSE]}

\* retryArgs.retries
Retries(autoRetry) ==
    IF autoRetry.on
    THEN IF autoRetry.retries # 0 THEN autoRetry.retries ELSE DefaultRetries
    ELSE 0

ServerError(res) == res.status >= 500 /\ res.status <= 599

\* the error the attempt gives to bail, "" if it does not bail
Bailed(autoRetry, res) ==
    IF res.status = 0 THEN ""
    ELSE IF ServerError(res) THEN IF autoRetry.on THEN "" ELSE "Error Status"
    ELSE IF res.status = 403 THEN "Unauthorized"
    ELSE ""

\* the error the attempt throws, "" if it returns
Thrown(autoRetry, res) ==
    IF res.status = 0 THEN "rejected"
    ELSE IF ServerError(res) THEN IF autoRetry.on THEN "Retry, pretty please." ELSE ""
    ELSE IF res.status = 403 THEN ""
    ELSE IF res.json THEN "" ELSE "SyntaxError"

\* http.call(endpoint, args, options) up to the first fetch
Call(autoRetry) ==
    /\ request.pc # "pending"
    /\ Commit([World EXCEPT
          !.request = [NoRequest EXCEPT !.pc = "pending", !.autoRetry = autoRetry]])

\* one run of the function given to retry, on the answer res, and what retry
\* does with its result: bail rejects, an error thrown is retried while
\* retries are left, a value returned resolves; errorCatcher makes every
\* rejection the value of the call
Attempt(res) ==
    LET autoRetry == request.autoRetry
        bailed == Bailed(autoRetry, res)
        thrown == Thrown(autoRetry, res)
        again == bailed = "" /\ thrown # "" /\ request.retryCount < Retries(autoRetry)
    IN  /\ request.pc = "pending"
        /\ Commit([World EXCEPT
              !.request = [@ EXCEPT
                  !.retryCount = @ + 1,
                  !.answers = IF Len(@) < MaxAnswers THEN Append(@, res) ELSE @,
                  !.last = res,
                  !.pc = IF again THEN "pending" ELSE "done",
                  !.outcome =
                      IF again THEN @
                      ELSE IF bailed # "" THEN [error |-> bailed, json |-> 0]
                      ELSE IF thrown # "" THEN [error |-> thrown, json |-> 0]
                      ELSE [error |-> "", json |-> res.status]]])

InitRetry ==
    /\ client = FreshClient
    /\ devices = NoDevices
    /\ ws = "none"
    /\ inbox = <<>>
    /\ brain = Brain("", TRUE, TRUE)
    /\ app = [k \in ConnCallers |-> NoConnect]
    /\ calls = [a \in DevCallers |-> NoCall]
    /\ http = NoHttp
    /\ out = NoOut
    /\ lastStatus = NoStatus
    /\ statusSeen = <<>>
    /\ quiet = TRUE
    /\ registry = NoRegistry
    /\ request = NoRequest

NextRetry ==
    \/ \E autoRetry \in AutoRetries : Call(autoRetry)
    \/ \E res \in Responses : Attempt(res)

SpecRetry == InitRetry /\ [][NextRetry]_vars

\* the answers of the attempts so far, as status codes
Statuses(r) == [i \in 1..Len(r.answers) |-> r.answers[i].status]

\* C27: an attempt is followed by another one only with autoRetry and after a
\* response of status 500-599, and at most Retries times; 502, 502, 200
\* gives the body of the 200 at the third attempt; a 403 ends the call with
\* Unauthorized; any other 4xx, a body that is no JSON, and every response
\* without autoRetry end the call at that attempt.
RetryPolicy ==
    [][request'.retryCount = request.retryCount + 1 =>
        /\ request'.pc = "pending"
              => request.autoRetry.on /\ ServerError(request'.last)
        /\ request'.retryCount <= Retries(request.autoRetry) + 1
        /\ (/\ request.autoRetry.on /\ Statuses(request') = <<502, 502, 200>>
            /\ request'.retryCount = 3 /\ request'.last.json)
              => request'.pc = "done" /\ request'.outcome = [error |-> "", json |-> 200]
        /\ request'.last.status = 403
              => /\ request'.pc = "done"
                 /\ request'.outcome = [error |-> "Unauthorized", json |-> 0]
        /\ (\/ request'.last.status \in 400..499
            \/ request'.last.status # 0 /\ ~request'.last.json
                  /\ ~ServerError(request'.last)
            \/ ~request.autoRetry.on)
              => request'.pc = "done"]_vars

\* with autoRetry the first answer was a 200 with a body that is no JSON, and
\* the request is made again
RetriedAfterParseError ==
    /\ request.autoRetry.on /\ request.pc = "pending"
    /\ request.retryCount = 1
    /\ request.answers = <<[status |-> 200, json |-> FALSE]>>

-----------------------------------------------------------------------------
(* The reconnect timer *)

\* C31: at most one timeout of _reconnectNeeded is pending; a step that asks
\* for a reconnect leaves exactly one, the one it has set, and the step of a
\* timeout leaves none, so the requests before it open one socket at most.
ReconnectDebounced ==
    /\ [](client.timers <= 1 /\ (client.timers = 1 <=> client.reconnectTid))
    /\ [][/\ CONNECTION_RECONNECTING \in {out'.writes[i][2] : i \in DOMAIN out'.writes}
                => client'.timers = 1 /\ out'.cleared = client.reconnectTid
          /\ client'.timers < client.timers
                => client'.timers = 0 /\ (ws' = ws \/ ws' = "connecting")]_vars

\* the socket has reported an error and then its close: the timer of the
\* error was cleared by the close, and one timer is pending
TimerReplaced ==
    /\ out.cleared /\ client.timers = 1 /\ ws = "closed"
    /\ \E i \in DOMAIN out.emitted : out.emitted[i].event = "WS_CLOSED"
    /\ client.status = CONNECTION_RECONNECTING

-----------------------------------------------------------------------------
(* The promises of the handshake across a reconnect *)

\* what isLoginNeeded() and isExpressModeEnabled() give a caller now:
\* a value, or "pending" when the caller has to wait
LoginNeededNow ==
    IF client.isAuthenticated THEN "false" ELSE client.loginNeededPromise

ExpressModeNow ==
    IF client.expressModeEnabled THEN "true" ELSE client.expressModePromise

\* the client reconnects and no frame of the new socket has been handled yet
Reconnecting ==
    client.isReconnecting /\ ws \in {"closing", "closed", "connecting"}

\* C32: while the client reconnects, before any message of the new socket,
\* the promises of the connection, of express mode, of the login and of the
\* authorization are pending, and isLoginNeeded() and isExpressModeEnabled()
\* wait for the new handshake.
ReconnectDiscardsPromises ==
    Reconnecting =>
        /\ client.connectionPromise = "pending"
        /\ client.expressModePromise = "pending"
        /\ client.loginNeededPromise = "pending"
        /\ client.authPromise = "pending"
        /\ LoginNeededNow = "pending" /\ ExpressModeNow = "pending"

\* the new socket is being opened by the reconnect timer, and isLoginNeeded()
\* and isExpressModeEnabled() answer with the values of the connection before
StaleHandshakeAnswers ==
    /\ Reconnecting /\ ws = "connecting"
    /\ client.status = CONNECTION_RECONNECTING
    /\ client.authPromise = "pending"
    /\ LoginNeededNow = "false" /\ ExpressModeNow = "true"

-----------------------------------------------------------------------------
(* The dispatch of inbound messages, with a controller that sends messages  *)
(* of every kind                                                            *)

\* message types without a case in _incomingBrainEvent, and one with a case
\* that the controller sends unasked
OtherTypes == {"handset_list_message", "macro_finished_message", "brain_status_color_msg"}

\* the controller sends a message of this type, unasked
BrainSendsOther(type) ==
    /\ ws = "open" /\ inbox = <<>>
    /\ Handle([World EXCEPT !.quiet = FALSE, !.inbox = Append(@, Frame(type))])

NextDispatch ==
    \/ Next
    \/ \E state \in SentSysStates : inbox = <<>> /\ BrainSendsSys(state)
    \/ \E type \in OtherTypes : BrainSendsOther(type)

\* a provisioned controller in express mode, with or without a PIN
InitDispatch == Init /\ brain.express /\ brain.provisioned

SpecDispatch == InitDispatch /\ [][NextDispatch]_vars

\* the types with a case in _incomingBrainEvent
RecognisedTypes ==
    {"brain_status_message", "brain_status_color_msg", "express_mode_flag_msg",
     "unauthorized_message", "authorized_message", "state_change_message",
     "system_state_message"}

\* the number of events of this name the step has emitted
EmittedCount(o, name) ==
    Cardinality({i \in DOMAIN o.emitted : o.emitted[i].event = name})

\* C33: the step that handles a message emits one WS_MESSAGE; for a message
\* of a recognised type it emits neither BRAIN_EVENT nor HANDSET_MESSAGE; for
\* any other it emits one HANDSET_MESSAGE (type handset_...) or one
\* BRAIN_EVENT and leaves the status as it is.
DispatchIsExclusive ==
    [][out'.handled.type # "" =>
        /\ EmittedCount(out', "WS_MESSAGE") = 1
        /\ out'.handled.type \in RecognisedTypes
              => EmittedCount(out', "BRAIN_EVENT") = 0 /\ EmittedCount(out', "HANDSET_MESSAGE") = 0
        /\ out'.handled.type \notin RecognisedTypes
              => /\ client'.status = client.status /\ out'.writes = <<>>
                 /\ EmittedCount(out', "HANDSET_MESSAGE") =
                       (IF StartsWithHandset(out'.handled.type) THEN 1 ELSE 0)
                 /\ EmittedCount(out', "BRAIN_EVENT") =
                       (IF StartsWithHandset(out'.handled.type) THEN 0 ELSE 1)]_vars

\* a system_state_message has been handled and BRAIN_EVENT emitted for it
SystemStateIsGeneric ==
    /\ out.handled.type = "system_state_message"
    /\ out.handled.state = "brain_sync"
    /\ client.status = CONNECTION_SYNCHRONIZING
    /\ EmittedCount(out, "BRAIN_EVENT") = 1

-----------------------------------------------------------------------------
(* Messages that arrive while the handler of an active state awaits the     *)
(* enumeration                                                              *)

NextOrder ==
    \/ \E id \in DOMAIN devices : ListenerOn(id, 1)
    \/ \E state \in {"brain_sync", "active_online"} :
          /\ inbox = <<>> /\ client.activating <= 1
          /\ BrainSendsSys(state)
    \/ \E id \in DOMAIN devices \cap {"D1"} : \E list \in ChangeLists(Reportable(id)) :
          Len(list) = 1 /\ list[1].id \in Ticking /\ BrainReports(id, list)
    \/ Deliver
    \/ WsClose
    \/ HttpDevicesResponds("ok")
    \/ HttpDriverResponds("ok")

SpecOrder == InitDevice /\ [][NextOrder]_vars

\* the step goes on after await this._enumDevices() and assigns ACTIVE
ActivatedLate(o) ==
    /\ o.handled.type = "" /\ o.answer = "ok"
    /\ \E i \in DOMAIN o.writes : o.writes[i][2] = CONNECTION_ACTIVE

\* C34: while the handler of an active state awaits the enumeration no later
\* message and no close of the socket is handled, so that when it assigns
\* ACTIVE the socket is open and no sync state has been handled after it.
HandledInArrivalOrder ==
    [][/\ client.activating > 0 => out'.handled.type = "" /\ ws' = ws
       /\ ActivatedLate(out') => ws = "open" /\ ~client.syncFlag]_vars

\* the enumeration has resolved and the status is ACTIVE; the controller
\* has reported brain_sync since, and the client has handled it before
ActiveAfterLaterSync ==
    /\ ActivatedLate(out) /\ client.status = CONNECTION_ACTIVE
    /\ client.syncFlag /\ ws = "open"
    /\ lastStatus = CONNECTION_ACTIVE

-----------------------------------------------------------------------------
(* Two connectToBrain calls on one client, each made once, with a           *)
(* controller that is provisioned and accepts the empty PIN, in express     *)
(* mode or not                                                              *)

RaceCallers == {"k1", "k2"}

InitRace ==
    /\ client = FreshClient
    /\ devices = NoDevices
    /\ ws = "none"
    /\ inbox = <<>>
    /\ brain \in {Brain("", express, TRUE) : express \in BOOLEAN}
    /\ app = [k \in RaceCallers |-> NoConnect]
    /\ calls = [a \in DevCallers |-> NoCall]
    /\ http = NoHttp
    /\ out = NoOut
    /\ lastStatus = NoStatus
    /\ statusSeen = <<>>
    /\ quiet = TRUE
    /\ registry = NoRegistry
    /\ request = NoRequest

NextRace ==
    \/ \E k \in RaceCallers : app[k].pc = "idle" /\ ConnectToBrain(k, "")
    \/ \E k \in RaceCallers : HttpGeneralResponds(k, "ok")
    \/ WsOpen
    \/ Deliver

SpecRace == InitRace /\ [][NextRace]_vars

\* both calls have been made, the REST requests are answered, the socket is
\* open and every message of the controller has been handled
RaceOver ==
    /\ \A k \in RaceCallers : app[k].pc \notin {"idle", "bootstrap"}
    /\ ws = "open" /\ inbox = <<>>

\* C35: of two connectToBrain calls one socket is made, and with a controller
\* in express mode both calls have resolved with ACTIVE once nothing is left
\* to arrive.
RaceTolerated ==
    /\ [][ws' = "connecting" => ws \in {"none", "connecting"}]_vars
    /\ [](RaceOver /\ brain.express => \A k \in RaceCallers :
             app[k].pc = "done" /\ app[k].result = CONNECTION_ACTIVE)

\* the second call was made while the first awaited the connection: the second
\* has resolved with ACTIVE, the first awaits a promise that was replaced
FirstCallLeftBehind ==
    /\ RaceOver /\ brain.express /\ client.status = CONNECTION_ACTIVE
    /\ app["k1"].pc = "orphaned"
    /\ app["k2"].pc = "done" /\ app["k2"].result = CONNECTION_ACTIVE

-----------------------------------------------------------------------------
(* connectToBrain, disconnect() once the call has resolved, connectToBrain  *)
(* again: a network that does not fail, and a socket that reports its close *)
(* some time after close() was called                                       *)

NextAgain ==
    \/ \E k \in ConnCallers, pin \in Pins :
          /\ app[k].pc = "idle" \/ client.manuallyDisconnected
          /\ ConnectToBrain(k, pin)
    \/ \E k \in ConnCallers : HttpGeneralResponds(k, "ok")
    \/ WsOpen
    \/ Deliver
    \/ ws = "closing" /\ WsClose
    \/ ReconnectTimer
    \/ (\A k \in ConnCallers : app[k].pc = "done") /\ Disconnect
    \/ \E pin \in Pins : AppSubmitPin(pin)

SpecAgain == Init /\ [][NextAgain]_vars

\* the controller is provisioned, in express mode and accepts the empty PIN;
\* the call has been made, the REST request is answered, the socket is open
\* and every message of the controller has been handled
AgainOver ==
    /\ brain.provisioned /\ brain.express /\ brain.pin = ""
    /\ \A k \in ConnCallers : app[k].pc \notin {"idle", "bootstrap"}
    /\ ~client.manuallyDisconnected
    /\ ws = "open" /\ inbox = <<>>

\* C36: a connectToBrain call made after disconnect() makes a new socket, the
\* close event of the socket that disconnect() closed starts no reconnection,
\* and once nothing is left to arrive the call has resolved with ACTIVE.
ConnectsAgainAfterDisconnect ==
    /\ [][\A k \in ConnCallers :
            client.manuallyDisconnected /\ app[k].pc = "bootstrap"
               /\ app'[k].pc # "bootstrap" => ws' = "connecting"]_vars
    /\ [][ws = "closing" /\ ws' = "closed" =>
            ~client'.isReconnecting /\ client'.timers = 0]_vars
    /\ [](AgainOver => \A k \in ConnCallers :
            app[k].pc = "done" /\ app[k].result = CONNECTION_ACTIVE)

\* the call made after disconnect() found the old socket closing and made
\* none; the close event of the old socket has started a reconnection
LateCloseReconnects ==
    /\ brain.provisioned /\ brain.express /\ brain.pin = ""
    /\ app["k1"].pc = "awaitConnection" /\ app["k1"].pin = ""
    /\ ~client.manuallyDisconnected
    /\ ws = "closed" /\ client.isReconnecting /\ client.timers = 1
    /\ client.status = CONNECTION_RECONNECTING

-----------------------------------------------------------------------------
(* What changes the value of a state                                        *)

\* the state sid of device id has another value or normalizedValue after
\* the step
ValueChanged(id, sid) ==
    \/ devices'[id].states[sid].value # devices[id].states[sid].value
    \/ devices'[id].states[sid].normalizedValue # devices[id].states[sid].normalizedValue

\* the step has handled a state_change_message for device id that names sid
ChangeHandled(o, id, sid) ==
    /\ o.handled.type = "state_change_message" /\ o.handled.device = id
    /\ \E i \in DOMAIN o.handled.changes : o.handled.changes[i].id = sid

\* C37: the value and normalizedValue of a state the device has before and
\* after a step change only in a step that handles a state_change_message for
\* that device naming that state.
ValuesChangeByDispatchOnly ==
    [][\A id \in DOMAIN devices \cap DOMAIN devices' :
         \A sid \in DOMAIN devices[id].states \cap DOMAIN devices'[id].states :
            ValueChanged(id, sid) => ChangeHandled(out', id, sid)]_vars

\* a state change has been applied to the system device, and the enumeration
\* after a synchronization has just resolved: the state's value is null again
ValueLostByEnumeration ==
    /\ out.handled.type = "" /\ out.answer = "ok" /\ client.devicesEnumerated
    /\ client.status = CONNECTION_ACTIVE
    /\ devices["D1"].applied
    /\ devices["D1"].states["SECOND_STATE"].value = Null
    /\ devices["D1"].states["SECOND_STATE"].normalizedValue = Null

-----------------------------------------------------------------------------
(* The sockets of a client, with the timeout that _wsOpen sets when         *)
(* opts.remoteAuthorization is given left free to expire at any time after  *)
(* a socket was made                                                        *)

\* the timeout of _wsOpen: if(!this.isAuthenticated) { this.disconnect();
\* this._reconnectNeeded(); }
AuthorizationTimeout ==
    /\ ws # "none"
    /\ ~client.isAuthenticated
    /\ Handle(ReconnectNeeded(DisconnectInternal(
          [World EXCEPT !.d = NoDevices, !.c.devicesEnumerated = FALSE,
                        !.c.manuallyDisconnected = TRUE, !.quiet = FALSE])))

NextChannel ==
    \/ Next
    \/ AuthorizationTimeout

SpecChannel == Init /\ [][NextChannel]_vars

\* C38: a socket is made only by a client that has none or whose socket is
\* closed, so that the client never has two sockets that are not closed.
OneChannel ==
    [][out'.made => ws \in {"none", "closed"} /\ ws' = "connecting"]_vars

\* the reconnect timer has made a new socket after the old one was closed
ChannelReplaced ==
    /\ out.made /\ ws = "connecting"
    /\ client.isReconnecting /\ client.timers = 0
    /\ client.status = CONNECTION_RECONNECTING

-----------------------------------------------------------------------------
(* Calls that wait for the next state change of a device                    *)

\* the calls that await _statePromise of device id
Waiters(cs, id) == {a \in DOMAIN cs : cs[a].pc = "waiting" /\ cs[a].dev = id}

\* C39: a device on which a call awaits the next state change has
\* _watchStateRequested set, and no step asks the controller to stop watching
\* a device and leaves a call waiting on it.
WaitersAreSubscribed ==
    /\ [](\A id \in DOMAIN devices :
            Waiters(calls, id) # {} => devices[id].watchRequested)
    /\ [][\A i \in DOMAIN out'.asked :
            ~out'.asked[i].watch => Waiters(calls', out'.asked[i].device) = {}]_vars

\* getStates() awaits the first state change of the display; its last
\* listener of STATE_CHANGED was removed and the unwatch request went out
WaiterUnsubscribed ==
    /\ ws = "open" /\ client.status = CONNECTION_ACTIVE
    /\ Waiters(calls, "D2") = {"a"}
    /\ devices["D2"].listeners = <<>> /\ ~devices["D2"].watchRequested
    /\ devices["D2"].statePromise = "pending"
    /\ "D2" \notin brain.watching
    /\ out.asked = <<[device |-> "D2", watch |-> FALSE]>>

-----------------------------------------------------------------------------
(* A synchronization in which the controller loses a device                 *)

\* the space is changed while the controller synchronizes: device id is no
\* longer in its answer to GET devices
BrainForgets(id) ==
    /\ client.syncFlag /\ client.enumPromise = "none"
    /\ id \in brain.listed
    /\ Handle([World EXCEPT !.brain.listed = @ \ {id},
                            !.brain.watching = @ \ {id}])

NextRemoval ==
    \/ \E id \in DOMAIN devices : ListenerOn(id, 1)
    \/ \E state \in {"brain_sync", "active_online"} :
          /\ inbox = <<>> /\ client.activating = 0
          /\ BrainSendsSys(state)
    \/ \E id \in DOMAIN devices : BrainForgets(id)
    \/ \E id \in DOMAIN devices : \E list \in ChangeLists(Reportable(id)) :
          Len(list) = 1 /\ list[1].id \in Ticking /\ BrainReports(id, list)
    \/ Deliver
    \/ HttpDevicesResponds("ok")
    \/ HttpDriverResponds("ok")

SpecRemoval == InitDevice /\ [][NextRemoval]_vars

\* the step resolves the promise of _enumDevices()
EnumCompletes ==
    /\ client.enumPromise = "pending" /\ client'.enumPromise = "none"
    /\ out'.answer = "ok"

\* C40: when an enumeration resolves, the ids of the device map are the ids of
\* the controller's answer.
MapIsTheAnswer ==
    [][EnumCompletes => DOMAIN devices' = brain.listed]_vars

\* the enumeration after a synchronization has resolved with an answer that
\* has only the system device; the display is still in the map
ForgottenDeviceKept ==
    /\ out.answer = "ok" /\ out.handled.type = "" /\ client.enumPromise = "none"
    /\ client.status = CONNECTION_ACTIVE /\ client.devicesEnumerated
    /\ brain.listed = {"D1"}
    /\ DOMAIN devices = {"D1", "D2"}

====
